---- MODULE Spec2Model ----
(***************************************************************************)
(* State-machine model of the chat turn engine of backend/api/chat.py:     *)
(* the request handler chat_stream (session resolution, user-message       *)
(* persistence, history loading), the generator stream_generator (hybrid   *)
(* retrieval, tool matching, mode routing, the RAG / TOOL / CHAT branches, *)
(* the trailing sources event, assistant-message persistence),            *)
(* get_chat_history, and the history / delete / rename requests.  The      *)
(* request handler is modelled twice: as one step of a single request, and *)
(* one database call at a time for requests served concurrently.  The      *)
(* process-wide caches the generator reads are modelled too: init_llm of   *)
(* core/llm.py and get_mcp_tools of core/mcp_tools.py, with the saves of   *)
(* the configuration tables of system/models.py.                           *)
(*                                                                         *)
(* Scores are integers in hundredths (0.5 is 50).  Texts are sequences of  *)
(* code points.  The generator is modelled step by step; `suspended` says  *)
(* that it is parked at a yield (or not started) and the consumer has the  *)
(* control.                                                                *)
(***************************************************************************)
EXTENDS Integers, Sequences, FiniteSets, TLC

VARIABLES
    sessions,            \* ChatSession table: id -> [user, title]
    messages,            \* ChatMessage table: sequence of rows
    now,                 \* database clock (auto_now_add)
    minted,              \* number of identifiers uuid4 has produced
    turn,                \* number of turn requests received
    request,             \* the ChatRequest being served
    pc,                  \* position of the handler / generator
    suspended,           \* generator parked at a yield (or not started)
    session_id,          \* chat_stream / stream_generator: session_id
    current_message,     \* stream_generator argument (user_text)
    use_rag,             \* stream_generator argument
    history,             \* stream_generator argument
    llm,                 \* "ok" | "none": handle returned by init_llm
    mcp_tools,           \* sequence of tool names
    retrieved_nodes,     \* sequence of [score, file, page]
    max_score,
    keyword_match,
    is_exact_match,
    keyword_results,     \* rows of the text search
    tool_match_score,
    matched_tool_name,
    tool_sims,           \* tool matcher: the similarity of each tool (loop of lines 191-203)
    selected_mode,       \* "" | "rag" | "tool" | "chat"
    full_response_text,
    sources,
    tool_calls,          \* TOOL branch: invocations still to execute
    consumed,            \* chunks taken from the current generation stream
    events,              \* what the stream has yielded so far
    outcome,             \* how the generator ended, and what was caught on the way
    reply,               \* what the last history / delete / rename request returned
    procs,               \* concurrent chat_stream requests: worker -> its locals
    llm_configs,         \* LLMConfig table: id -> [is_active, api_key, updated_at]
    llm_instance,        \* core/llm.py global _llm_instance
    current_config_id,   \* core/llm.py global _current_config_id
    callers,             \* init_llm calls in progress: caller -> its locals
    mcp_configs,         \* MCPServerConfig table: name -> [is_active, status, updated_at]
    mcp_tools_cache,     \* core/mcp_tools.py global _mcp_tools_cache
    mcp_cache_timestamp, \* core/mcp_tools.py global _mcp_cache_timestamp
    tool_server_map      \* core/mcp_tools.py global _tool_server_map

vars == << sessions, messages, now, minted, turn, request, pc, suspended,
           session_id, current_message, use_rag, history, llm, mcp_tools,
           retrieved_nodes, max_score, keyword_match, is_exact_match,
           keyword_results, tool_match_score, matched_tool_name, tool_sims,
           selected_mode, full_response_text, sources, tool_calls, consumed, events, outcome,
           reply, procs, llm_configs, llm_instance, current_config_id, callers,
           mcp_configs, mcp_tools_cache, mcp_cache_timestamp, tool_server_map >>

llmVars == << llm_configs, llm_instance, current_config_id, callers >>

mcpVars == << mcp_configs, mcp_tools_cache, mcp_cache_timestamp, tool_server_map >>

cfgVars == << llmVars, mcpVars >>

dbVars == << sessions, messages, now, minted >>

reqVars == << turn, request, session_id, current_message, use_rag, history >>

scoreVars == << llm, mcp_tools, retrieved_nodes, max_score, keyword_match,
                is_exact_match, keyword_results, tool_match_score,
                matched_tool_name, tool_sims, selected_mode >>

outVars == << full_response_text, sources, tool_calls, consumed, events, outcome >>

----------------------------------------------------------------------------
(* Bounds of the model *)

\* the score grid divides [0, 1] into GridPoints intervals
GridPoints == 20

\* chunks a generation stream may deliver before it ends or raises
MaxChunks == 2

\* turn requests per behaviour
MaxTurns == 2

\* rows preloaded for the history check go up to HISTORY_LIMIT + ExtraRows
ExtraRows == 5

\* configuration saves (LLMConfig, MCPServerConfig) made while the process runs
MaxSaves == 3

----------------------------------------------------------------------------
(* Program constants *)

\* cosine similarity 1.0, in hundredths
ScoreMax == 100

RAG_THRESHOLD == 50

TOOL_THRESHOLD == 40

\* lowered RAG bar when the text search hit (0.3)
KEYWORD_RAG_FLOOR == 30

\* slice length of the direct reply of the TOOL branch
CHUNK_SIZE == 50

\* get_chat_history: [:20]
HISTORY_LIMIT == 20

\* title: [:20]
TITLE_LEN == 20

----------------------------------------------------------------------------
(* Values *)

None == "None"

Scores == { (i * ScoreMax) \div GridPoints : i \in 0..GridPoints }

Min(a, b) == IF a <= b THEN a ELSE b

Max(a, b) == IF a >= b THEN a ELSE b

RECURSIVE SeqMax(_)
\* max() of a non-empty sequence of numbers
SeqMax(s) ==
    IF Len(s) = 1 THEN s[1] ELSE Max(s[1], SeqMax(Tail(s)))

\* an optional value: << >> is Python's None, << x >> is x
Null == << >>

Some(x) == << x >>

RECURSIVE SelectNotNone(_)
\* [node.score for node in nodes if node.score is not None]
SelectNotNone(nodes) ==
    IF nodes = << >> THEN << >>
    ELSE nodes[1].score \o SelectNotNone(Tail(nodes))

(* Texts: sequences of code points *)
IsSpace(c) == c = 32

IsChinese(c) == c >= 19968 /\ c <= 40869

RECURSIVE LStrip(_)
LStrip(t) ==
    IF t # << >> /\ IsSpace(t[1]) THEN LStrip(Tail(t)) ELSE t

RECURSIVE RStrip(_)
RStrip(t) ==
    IF t # << >> /\ IsSpace(t[Len(t)]) THEN RStrip(SubSeq(t, 1, Len(t) - 1)) ELSE t

\* str.strip()
Strip(t) == RStrip(LStrip(t))

\* ''.join(re.findall(r'[一-龥]', query_text))
ChineseStr(t) == SelectSeq(t, IsChinese)

\* the 2-character windows taken at even offsets: range(0, len - 1, 2)
KeywordWindows(cs) ==
    { SubSeq(cs, i + 1, i + 2) : i \in { j \in 0..(Len(cs) - 2) : j % 2 = 0 } }

\* len(list(set(keywords))[:3])
NumKeywords(cs) == Min(3, Cardinality(KeywordWindows(cs)))

\* "hi", "abc", a four-ideograph query with two fragments, one with a single
\* repeated fragment, and blanks only
T_hi == << 104, 105 >>

T_abc == << 97, 98, 99 >>

T_zh == << 22825, 27668, 39044, 25253 >>

T_haha == << 21704, 21704, 21704, 21704 >>

T_blank == << 32, 32, 32 >>

\* str(None)
NoneText == << 78, 111, 110, 101 >>

----------------------------------------------------------------------------
(* The database: ChatSession and ChatMessage *)

\* "New Chat", the default of ChatSession.title
NewChat == << 78, 101, 119, 32, 67, 104, 97, 116 >>

\* identifiers a client may send: two canonical UUIDs, another spelling of the
\* first one (upper case), a string that is no UUID, and the empty string
ClientIds == { "c1", "c2" }

AliasIds == { "C1" }

MalformedIds == { "zz" }

\* what uuid4 returns, in order
MintPool == << "m1", "m2", "m3", "m4" >>

\* uuid.UUID(s) succeeds (and so does UUIDField.to_python)
IsValidUUID(s) ==
    s \in ClientIds \cup AliasIds \cup { MintPool[i] : i \in 1..Len(MintPool) }

\* str(uuid.UUID(s)): the canonical spelling under which rows are stored
Canon(s) == IF s = "C1" THEN "c1" ELSE s

Users == { "alice", "bob" }

\* ChatSession.objects.get(id=sid) finds a row
SessionExists(tbl, sid) == IsValidUUID(sid) /\ Canon(sid) \in DOMAIN tbl

\* ChatSession.objects.create(id=sid, user=u)
CreateSession(tbl, sid, u) ==
    [ k \in (DOMAIN tbl) \cup { Canon(sid) } |->
        IF k = Canon(sid) THEN [ user |-> u, title |-> NewChat ] ELSE tbl[k] ]

\* ChatMessage.objects.create(session=..., role=..., content=...) at time t
MessageRow(sid, role, content, srcs, elapsed, t) ==
    [ session |-> Canon(sid), role |-> role, content |-> content,
      sources |-> srcs, elapsed_time |-> elapsed, created_at |-> t ]

RECURSIVE OrderByDesc(_)
\* order_by('-created_at') of a set of rows
OrderByDesc(rows) ==
    IF rows = {} THEN << >>
    ELSE LET top == CHOOSE r \in rows : \A q \in rows : q.created_at <= r.created_at
         IN  << top >> \o OrderByDesc(rows \ { top })

\* qs[:n]
Take(s, n) == SubSeq(s, 1, Min(n, Len(s)))

\* reversed(s)
Reverse(s) == [ i \in 1..Len(s) |-> s[Len(s) + 1 - i] ]

\* "assistant" if msg.role == "ai" else msg.role
MapRole(role) == IF role = "ai" THEN "assistant" ELSE role

HistoryRows_unreversed(tbl, sid) ==
    Take(OrderByDesc({ tbl[i] : i \in { j \in 1..Len(tbl) : tbl[j].session = Canon(sid) } }),
         HISTORY_LIMIT)

\* filter(session_id=sid).order_by('-created_at')[:20], reversed
HistoryRows(tbl, sid) ==
    Reverse(Take(
        OrderByDesc({ tbl[i] : i \in { j \in 1..Len(tbl) : tbl[j].session = Canon(sid) } }),
        HISTORY_LIMIT))

\* callers pass None, "" or a valid UUID
get_chat_history(tbl, sid) ==
    IF sid = None \/ sid = "" THEN << >>
    ELSE LET rows == HistoryRows(tbl, sid)
         IN  [ i \in 1..Len(rows) |->
                 [ role |-> MapRole(rows[i].role), content |-> rows[i].content ] ]

----------------------------------------------------------------------------
(* chat_stream: the turn request handler *)

Idle == { "idle", "done", "raised", "rejected", "closed" }

\* status: how the generator ended; error_site, tool_error_site, persist_site:
\* where the exception caught at line 415, 367 or 413 came from
NoOutcome ==
    [ status |-> "", error_site |-> "", tool_error_site |-> "", persist_site |-> "",
      fallback_from |-> 0 ]

\* the locals of a generator that has not run yet
FreshFrame ==
    /\ llm' = ""
    /\ mcp_tools' = << >>
    /\ retrieved_nodes' = << >>
    /\ max_score' = 0
    /\ keyword_match' = FALSE
    /\ is_exact_match' = FALSE
    /\ keyword_results' = << >>
    /\ tool_match_score' = 0
    /\ matched_tool_name' = None
    /\ tool_sims' = << >>
    /\ selected_mode' = ""
    /\ full_response_text' = << >>
    /\ sources' = << >>
    /\ tool_calls' = << >>
    /\ consumed' = 0
    /\ events' = << >>
    /\ outcome' = NoOutcome

Truthy(sid) == sid # None /\ sid # ""

\* lines 431-452: reuse, adopt the client's identifier, or mint one
ResolveKind(tbl, sid) ==
    IF Truthy(sid) /\ SessionExists(tbl, sid) THEN "reuse"
    ELSE IF Truthy(sid) /\ IsValidUUID(sid) THEN "adopt"
    ELSE "mint"

ResolvedId_keepMalformed(tbl, sid, n) ==
    IF ResolveKind(tbl, sid) = "mint" /\ ~Truthy(sid) THEN MintPool[n + 1] ELSE sid

\* the value of session_id after resolution
ResolvedId(tbl, sid, n) ==
    IF ResolveKind(tbl, sid) = "mint" THEN MintPool[n + 1] ELSE sid

\* the ChatSession table after resolution
ResolvedSessions(tbl, sid, u, n) ==
    CASE ResolveKind(tbl, sid) = "reuse" ->
            IF tbl[Canon(sid)].user = None /\ u # None
            THEN [ tbl EXCEPT ![Canon(sid)].user = u ]
            ELSE tbl
      [] ResolveKind(tbl, sid) = "adopt" -> CreateSession(tbl, sid, u)
      [] OTHER -> CreateSession(tbl, MintPool[n + 1], u)

\* lines 473-476: the history without the message just stored
PopOwnMessage(h, text) ==
    IF h # << >> /\ h[Len(h)].role = "user" /\ h[Len(h)].content = text
    THEN SubSeq(h, 1, Len(h) - 1)
    ELSE h

chat_stream_persistLate(req) ==
    /\ pc \in Idle
    /\ minted < Len(MintPool)
    /\ turn' = turn + 1
    /\ request' = req
    /\ sessions' = ResolvedSessions(sessions, req.session_id, req.user, minted)
    /\ minted' = IF ResolveKind(sessions, req.session_id) = "mint" THEN minted + 1 ELSE minted
    /\ session_id' = ResolvedId(sessions, req.session_id, minted)
    /\ IF req.text = << >>
       THEN /\ pc' = "rejected"
            /\ UNCHANGED << current_message, use_rag, history >>
       ELSE /\ pc' = "gen_start"
            /\ current_message' = req.text
            /\ use_rag' = req.use_rag
            /\ history' = PopOwnMessage(get_chat_history(messages, session_id'), req.text)
    /\ UNCHANGED << messages, now >>
    /\ suspended' = (req.text # << >>)
    /\ FreshFrame
    /\ UNCHANGED << reply, procs, cfgVars >>

chat_stream(req) ==
    /\ pc \in Idle
    /\ minted < Len(MintPool)
    /\ turn' = turn + 1
    /\ request' = req
    /\ sessions' = ResolvedSessions(sessions, req.session_id, req.user, minted)
    /\ minted' = IF ResolveKind(sessions, req.session_id) = "mint" THEN minted + 1 ELSE minted
    /\ session_id' = ResolvedId(sessions, req.session_id, minted)
    /\ IF req.text = << >>
       THEN \* {"error": "No user message found"}
            /\ pc' = "rejected"
            /\ UNCHANGED << messages, now, current_message, use_rag, history >>
       ELSE /\ messages' = Append(messages,
                MessageRow(session_id', "user", req.text, << >>, Null, now))
            /\ now' = now + 1
            /\ pc' = "gen_start"
            /\ current_message' = req.text
            /\ use_rag' = req.use_rag
            /\ history' = PopOwnMessage(get_chat_history(messages', session_id'), req.text)
    /\ suspended' = (req.text # << >>)
    /\ FreshFrame
    /\ UNCHANGED << reply, procs, cfgVars >>

----------------------------------------------------------------------------
(* stream_generator, up to the routing decision (lines 95-228) *)

\* lines 95-99: init_llm() and init_embedding() are called outside any try.
\* res: "ok", "none" (init_llm returns None: no API key), "raise"
GenInit(res) ==
    /\ pc = "gen_start"
    /\ suspended' = FALSE
    /\ IF res = "raise"
       THEN \* the exception leaves the generator
            /\ pc' = "raised"
            /\ outcome' = [ outcome EXCEPT !.status = "raised", !.error_site = "init" ]
            /\ UNCHANGED llm
       ELSE /\ pc' = "tools"
            /\ llm' = res
            /\ UNCHANGED outcome
    /\ UNCHANGED << dbVars, reqVars, mcp_tools, retrieved_nodes, max_score,
                    keyword_match, is_exact_match, keyword_results,
                    tool_match_score, matched_tool_name, tool_sims, selected_mode,
                    full_response_text, sources, tool_calls, consumed, events >>
    /\ UNCHANGED << reply, procs, cfgVars >>

\* line 102: get_mcp_tools() catches its own failures and then returns []
LoadTools(tools) ==
    /\ pc = "tools"
    /\ pc' = "vector"
    /\ mcp_tools' = tools
    /\ UNCHANGED << dbVars, reqVars, suspended, llm, retrieved_nodes, max_score,
                    keyword_match, is_exact_match, keyword_results,
                    tool_match_score, matched_tool_name, tool_sims, selected_mode, outVars >>
    /\ UNCHANGED << reply, procs, cfgVars >>

\* line 118: max() over the scores that are not None; ValueError when there is none
MaxScoreOf(nodes, old) ==
    IF nodes = << >> \/ SelectNotNone(nodes) = << >> THEN old
    ELSE SeqMax(SelectNotNone(nodes))

VectorRetrieve_ignoreFlag(res) ==
    /\ pc = "vector"
    /\ pc' = "keyword"
    /\ IF res.ok
       THEN /\ retrieved_nodes' = res.nodes
            /\ max_score' = MaxScoreOf(res.nodes, max_score)
       ELSE UNCHANGED << retrieved_nodes, max_score >>
    /\ UNCHANGED << dbVars, reqVars, suspended, llm, mcp_tools,
                    keyword_match, is_exact_match, keyword_results,
                    tool_match_score, matched_tool_name, tool_sims, selected_mode, outVars >>
    /\ UNCHANGED << reply, procs, cfgVars >>

\* lines 107-121. res = [ok, nodes]: the retriever's answer, or its failure
VectorRetrieve(res) ==
    /\ pc = "vector"
    /\ pc' = "keyword"
    /\ IF use_rag /\ res.ok
       THEN /\ retrieved_nodes' = res.nodes
            /\ max_score' = MaxScoreOf(res.nodes, max_score)
       ELSE UNCHANGED << retrieved_nodes, max_score >>
    /\ UNCHANGED << dbVars, reqVars, suspended, llm, mcp_tools,
                    keyword_match, is_exact_match, keyword_results,
                    tool_match_score, matched_tool_name, tool_sims, selected_mode, outVars >>
    /\ UNCHANGED << reply, procs, cfgVars >>

NoMatch == [ keyword_match |-> FALSE, is_exact_match |-> FALSE, rows |-> << >> ]

\* the fragment query runs: at least 4 ideographs and at least 2 fragments
FuzzyEligible(q) == Len(ChineseStr(q)) >= 4 /\ NumKeywords(ChineseStr(q)) >= 2

\* lines 127-175. exact, fuzzy = [ok, rows]: what each query returns, or its failure
KeywordOutcome(msg, exact, fuzzy) ==
    LET q == Strip(msg)
    IN  IF ~(q # << >> /\ Len(q) > 2) THEN NoMatch
        ELSE IF ~exact.ok THEN NoMatch
        ELSE IF exact.rows # << >>
        THEN [ keyword_match |-> TRUE, is_exact_match |-> TRUE, rows |-> exact.rows ]
        ELSE IF ~FuzzyEligible(q) THEN NoMatch
        ELSE IF ~fuzzy.ok THEN NoMatch
        ELSE IF fuzzy.rows # << >>
        THEN [ keyword_match |-> TRUE, is_exact_match |-> FALSE, rows |-> fuzzy.rows ]
        ELSE NoMatch

KeywordSearch(exact, fuzzy) ==
    /\ pc = "keyword"
    /\ pc' = "toolmatch"
    /\ LET r == KeywordOutcome(current_message, exact, fuzzy)
       IN  /\ keyword_match' = r.keyword_match
           /\ is_exact_match' = r.is_exact_match
           /\ keyword_results' = r.rows
    /\ UNCHANGED << dbVars, reqVars, suspended, llm, mcp_tools, retrieved_nodes,
                    max_score, tool_match_score, matched_tool_name, tool_sims,
                    selected_mode, outVars >>
    /\ UNCHANGED << reply, procs, cfgVars >>

RECURSIVE ToolLoop(_, _, _, _)
\* lines 191-203: the loop over the tools, inside one try; sims[i] is the
\* similarity of tool i, or Null when embedding its description raises.
\* best = [score, name]
ToolLoop(tools, sims, i, best) ==
    IF i > Len(tools) THEN best
    ELSE IF sims[i] = Null THEN best
    ELSE IF sims[i][1] > best.score
         THEN ToolLoop(tools, sims, i + 1, [ score |-> sims[i][1], name |-> tools[i] ])
         ELSE ToolLoop(tools, sims, i + 1, best)

\* lines 182-207. query_ok: embedding the query succeeded
ToolMatch(query_ok, sims) ==
    /\ pc = "toolmatch"
    /\ pc' = "route"
    /\ IF mcp_tools # << >> /\ query_ok
       THEN LET best == ToolLoop(mcp_tools, sims, 1, [ score |-> 0, name |-> None ])
            IN  /\ tool_match_score' = best.score
                /\ matched_tool_name' = best.name
                /\ tool_sims' = sims
       ELSE UNCHANGED << tool_match_score, matched_tool_name, tool_sims >>
    /\ UNCHANGED << dbVars, reqVars, suspended, llm, mcp_tools, retrieved_nodes,
                    max_score, keyword_match, is_exact_match, keyword_results,
                    selected_mode, outVars >>
    /\ UNCHANGED << reply, procs, cfgVars >>

rag_score_noKeyword(maxs, kw) ==
    IF maxs >= RAG_THRESHOLD THEN maxs ELSE 0

\* line 215
rag_score(maxs, kw) ==
    IF maxs >= RAG_THRESHOLD \/ (kw /\ maxs >= KEYWORD_RAG_FLOOR) THEN maxs ELSE 0

\* line 216
tool_score(tms) == IF tms >= TOOL_THRESHOLD THEN tms ELSE 0

SelectMode_ragFirst(rs, ts) ==
    IF rs > 0 THEN "rag"
    ELSE IF ts > 0 /\ ts > rs THEN "tool"
    ELSE "chat"

SelectMode_toolOnTie(rs, ts) ==
    IF rs > 0 /\ rs > ts THEN "rag"
    ELSE IF ts > 0 /\ ts >= rs THEN "tool"
    ELSE "chat"

\* lines 218-223
SelectMode(rs, ts) ==
    IF rs > 0 /\ rs >= ts THEN "rag"
    ELSE IF ts > 0 /\ ts > rs THEN "tool"
    ELSE "chat"

\* lines 209-228
Route ==
    /\ pc = "route"
    /\ selected_mode' = SelectMode(rag_score(max_score, keyword_match),
                                   tool_score(tool_match_score))
    /\ pc' = selected_mode'
    /\ tool_sims' = << >>      \* the matcher's loop values are not read after line 207
    /\ UNCHANGED << dbVars, reqVars, suspended, llm, mcp_tools, retrieved_nodes,
                    max_score, keyword_match, is_exact_match, keyword_results,
                    tool_match_score, matched_tool_name, outVars >>
    /\ UNCHANGED << reply, procs, cfgVars >>

----------------------------------------------------------------------------
(* stream_generator: the three branches and the shared tail (lines 230-416) *)

TextEvent(t) == [ kind |-> "text", text |-> t, sources |-> << >> ]

SourcesEvent(srcs) == [ kind |-> "sources", text |-> << >>, sources |-> srcs ]

\* "Error: "; the event is {"text": "Error: <message>"} on the wire
ErrorText == << 69, 114, 114, 111, 114, 58, 32 >>

ErrorEvent == [ kind |-> "error", text |-> ErrorText, sources |-> << >> ]

\* the final path segment; "unknown" stands for the placeholder file name
Basename(path) == IF path = << >> THEN "unknown" ELSE path[Len(path)]

DocSource(name, page) ==
    [ type |-> "doc", name |-> name, page |-> page, tool_id |-> "", args |-> "" ]

ToolSource(server, tool_id, args) ==
    [ type |-> "tool", name |-> server, page |-> 0, tool_id |-> tool_id, args |-> args ]

Contains(seq, x) == \E i \in 1..Len(seq) : seq[i] = x

\* if source_info not in sources: sources.append(source_info)
AppendNew(seq, x) == IF Contains(seq, x) THEN seq ELSE Append(seq, x)

RECURSIVE RowSources(_, _)
\* lines 239-247: a row whose metadata cannot be read is skipped
RowSources(rows, acc) ==
    IF rows = << >> THEN acc
    ELSE IF ~rows[1].meta_ok THEN RowSources(Tail(rows), acc)
    ELSE RowSources(Tail(rows),
            AppendNew(acc, DocSource(
                Basename(IF rows[1].file # << >> THEN rows[1].file ELSE rows[1].title),
                rows[1].page)))

RECURSIVE NodeSources(_, _)
\* lines 251-256
NodeSources(nodes, acc) ==
    IF nodes = << >> THEN acc
    ELSE NodeSources(Tail(nodes),
            AppendNew(acc, DocSource(Basename(nodes[1].file), nodes[1].page)))

\* lines 232-285: the sources and the prompt of the RAG branch
RagPrepare ==
    /\ pc = "rag"
    /\ pc' = "rag_stream"
    /\ sources' = IF keyword_match /\ keyword_results # << >>
                  THEN RowSources(keyword_results, sources)
                  ELSE NodeSources(retrieved_nodes, sources)
    /\ UNCHANGED << dbVars, reqVars, suspended, scoreVars, full_response_text,
                    tool_calls, consumed, events, outcome >>
    /\ UNCHANGED << reply, procs, cfgVars >>

StreamSites == { "rag_stream", "tool_stream", "fallback_stream", "chat" }

\* sites whose exceptions reach the wrapping handler of line 415
OuterSites == { "rag_stream", "fallback_stream", "chat" }

ToolName(server_map, tool_id) ==
    IF tool_id \in DOMAIN server_map THEN server_map[tool_id] ELSE tool_id

\* get_tool_server_map(): tool name -> server name
ServerMap == [ t \in { "weather", "route" } |-> "amap" ]

RECURSIVE CallSources(_, _)
\* lines 321-333: one record per invocation
CallSources(calls, acc) ==
    IF calls = << >> THEN acc
    ELSE CallSources(Tail(calls),
            Append(acc, ToolSource(ToolName(ServerMap, calls[1].tool_name),
                                   calls[1].tool_name, calls[1].args)))

\* str(response.message.content)
Str(content) == IF content = Null THEN NoneText ELSE content[1]

\* lines 297-343 and 361-363. res = [ok, calls, content]: the answer of
\* chat_with_tools (ok = FALSE: it raised); calls = [tool_name, args, exec_ok]
ToolCall(res) ==
    /\ pc = "tool"
    /\ IF llm = "none" \/ ~res.ok
       THEN \* line 367: caught, the branch falls back to plain chat
            /\ pc' = "fallback_stream"
            /\ outcome' = [ outcome EXCEPT !.tool_error_site = "chat_with_tools" ]
            /\ UNCHANGED << sources, tool_calls, full_response_text >>
       ELSE IF res.calls # << >>
       THEN /\ pc' = "tool_stream"
            /\ tool_calls' = res.calls
            /\ sources' = CallSources(res.calls, sources)
            /\ UNCHANGED << outcome, full_response_text >>
       ELSE /\ pc' = "tool_direct"
            /\ full_response_text' = Str(res.content)
            /\ UNCHANGED << outcome, sources, tool_calls >>
    /\ UNCHANGED << dbVars, reqVars, suspended, scoreVars, consumed, events >>
    /\ UNCHANGED << reply, procs, cfgVars >>

\* the characters already yielded by the loop of line 364
DirectOffset == consumed * CHUNK_SIZE

\* lines 364-365: one slice of the direct reply
ToolDirect ==
    /\ pc = "tool_direct"
    /\ IF DirectOffset < Len(full_response_text)
       THEN /\ events' = Append(events, TextEvent(
                SubSeq(full_response_text, DirectOffset + 1,
                       Min(DirectOffset + CHUNK_SIZE, Len(full_response_text)))))
            /\ consumed' = consumed + 1
            /\ suspended' = TRUE
            /\ pc' = pc
       ELSE /\ pc' = "finish"
            /\ consumed' = 0
            /\ suspended' = FALSE
            /\ UNCHANGED events
    /\ UNCHANGED << dbVars, reqVars, scoreVars, full_response_text, sources,
                    tool_calls, outcome >>
    /\ UNCHANGED << reply, procs, cfgVars >>

StreamChunk_dropText(delta) ==
    /\ pc \in StreamSites
    /\ llm = "ok"
    /\ consumed < MaxChunks
    /\ consumed' = consumed + 1
    /\ IF delta # << >>
       THEN /\ events' = Append(events, TextEvent(delta))
            /\ suspended' = TRUE
       ELSE /\ suspended' = FALSE
            /\ UNCHANGED events
    /\ UNCHANGED << dbVars, reqVars, scoreVars, pc, sources, tool_calls, outcome,
                    full_response_text >>
    /\ UNCHANGED << reply, procs, cfgVars >>

\* lines 288-291 (356-360, 373-377, 389-393): the stream delivers a chunk
StreamChunk(delta) ==
    /\ pc \in StreamSites
    /\ llm = "ok"
    /\ consumed < MaxChunks
    /\ consumed' = consumed + 1
    /\ IF delta # << >>
       THEN /\ full_response_text' = full_response_text \o delta
            /\ events' = Append(events, TextEvent(delta))
            /\ suspended' = TRUE
       ELSE \* if chunk.delta: an empty delta is skipped
            /\ suspended' = FALSE
            /\ UNCHANGED << full_response_text, events >>
    /\ UNCHANGED << dbVars, reqVars, scoreVars, pc, sources, tool_calls, outcome >>
    /\ UNCHANGED << reply, procs, cfgVars >>

\* the generation stream is exhausted
StreamEnd ==
    /\ pc \in StreamSites
    /\ llm = "ok"
    /\ pc' = "finish"
    /\ consumed' = 0
    /\ suspended' = FALSE
    /\ UNCHANGED << dbVars, reqVars, scoreVars, full_response_text, sources,
                    tool_calls, events, outcome >>
    /\ UNCHANGED << reply, procs, cfgVars >>

StreamRaise_silent ==
    /\ pc \in StreamSites
    /\ consumed' = 0
    /\ IF pc = "tool_stream"
       THEN /\ pc' = "fallback_stream"
            /\ outcome' = [ outcome EXCEPT !.tool_error_site = "tool_stream",
                                            !.fallback_from = Len(full_response_text) ]
            /\ suspended' = FALSE
            /\ UNCHANGED events
       ELSE /\ pc' = "done"
            /\ outcome' = [ outcome EXCEPT !.status = "error", !.error_site = pc ]
            /\ suspended' = FALSE
            /\ UNCHANGED events
    /\ UNCHANGED << dbVars, reqVars, scoreVars, full_response_text, sources,
                    tool_calls >>
    /\ UNCHANGED << reply, procs, cfgVars >>

StreamRaise_freshAnswer ==
    /\ pc \in StreamSites
    /\ consumed' = 0
    /\ IF pc = "tool_stream"
       THEN /\ pc' = "fallback_stream"
            /\ outcome' = [ outcome EXCEPT !.tool_error_site = "tool_stream",
                                            !.fallback_from = 0 ]
            /\ suspended' = FALSE
            /\ full_response_text' = << >>
            /\ sources' = << >>
            /\ UNCHANGED events
       ELSE /\ pc' = "after_error"
            /\ outcome' = [ outcome EXCEPT !.error_site = pc ]
            /\ events' = Append(events, ErrorEvent)
            /\ suspended' = TRUE
            /\ UNCHANGED << full_response_text, sources >>
    /\ UNCHANGED << dbVars, reqVars, scoreVars, tool_calls >>
    /\ UNCHANGED << reply, procs, cfgVars >>

\* stream_chat, or the stream it returned, raises (always when llm is None).
\* Inside the TOOL branch's try the handler of line 367 starts the fallback;
\* elsewhere the handler of line 415 yields the Error event.
StreamRaise ==
    /\ pc \in StreamSites
    /\ consumed' = 0
    /\ IF pc = "tool_stream"
       THEN /\ pc' = "fallback_stream"
            /\ outcome' = [ outcome EXCEPT !.tool_error_site = "tool_stream",
                                            !.fallback_from = Len(full_response_text) ]
            /\ suspended' = FALSE
            /\ UNCHANGED events
       ELSE /\ pc' = "after_error"
            /\ outcome' = [ outcome EXCEPT !.error_site = pc ]
            /\ events' = Append(events, ErrorEvent)
            /\ suspended' = TRUE
    /\ UNCHANGED << dbVars, reqVars, scoreVars, full_response_text, sources,
                    tool_calls >>
    /\ UNCHANGED << reply, procs, cfgVars >>

Finish_always ==
    /\ pc = "finish"
    /\ pc' = "persist"
    /\ events' = Append(events, SourcesEvent(sources))
    /\ suspended' = TRUE
    /\ UNCHANGED << dbVars, reqVars, scoreVars, full_response_text, sources,
                    tool_calls, consumed, outcome >>
    /\ UNCHANGED << reply, procs, cfgVars >>

\* lines 395-397: the sources event
Finish ==
    /\ pc = "finish"
    /\ pc' = "persist"
    /\ IF sources # << >>
       THEN /\ events' = Append(events, SourcesEvent(sources))
            /\ suspended' = TRUE
       ELSE UNCHANGED << events, suspended >>
    /\ UNCHANGED << dbVars, reqVars, scoreVars, full_response_text, sources,
                    tool_calls, consumed, outcome >>
    /\ UNCHANGED << reply, procs, cfgVars >>

\* current_message.strip()[:20] + ("..." if len(current_message) > 20 else "")
AutoTitle(msg) ==
    Take(Strip(msg), TITLE_LEN)
        \o (IF Len(msg) > TITLE_LEN THEN << 46, 46, 46 >> ELSE << >>)

Persist_emptySources(fail_at, ms) ==
    /\ pc = "persist"
    /\ pc' = "done"
    /\ suspended' = FALSE
    /\ IF fail_at = "get" \/ ~SessionExists(sessions, session_id)
       THEN /\ outcome' = [ outcome EXCEPT !.status = "completed", !.persist_site = "get" ]
            /\ UNCHANGED << sessions, messages, now >>
       ELSE IF fail_at = "create"
       THEN /\ outcome' = [ outcome EXCEPT !.status = "completed",
                                           !.persist_site = "create" ]
            /\ UNCHANGED << sessions, messages, now >>
       ELSE /\ messages' = Append(messages,
                MessageRow(session_id, "ai", full_response_text, << >>, Some(ms), now))
            /\ now' = now + 1
            /\ IF sessions[Canon(session_id)].title # NewChat
               THEN /\ outcome' = [ outcome EXCEPT !.status = "completed" ]
                    /\ UNCHANGED sessions
               ELSE IF fail_at = "save"
               THEN /\ outcome' = [ outcome EXCEPT !.status = "completed",
                                                   !.persist_site = "save" ]
                    /\ UNCHANGED sessions
               ELSE /\ outcome' = [ outcome EXCEPT !.status = "completed" ]
                    /\ sessions' = [ sessions EXCEPT
                          ![Canon(session_id)].title = AutoTitle(current_message) ]
    /\ UNCHANGED << minted, reqVars, scoreVars, full_response_text, sources,
                    tool_calls, consumed, events >>
    /\ UNCHANGED << reply, procs, cfgVars >>

Persist_surfacing(fail_at, ms) ==
    /\ pc = "persist"
    /\ pc' = "done"
    /\ suspended' = FALSE
    /\ IF fail_at = "get" \/ ~SessionExists(sessions, session_id)
       THEN /\ outcome' = [ outcome EXCEPT !.status = "completed", !.persist_site = "get" ]
            /\ UNCHANGED << sessions, messages, now >>
       ELSE IF fail_at = "create"
       THEN /\ outcome' = [ outcome EXCEPT !.status = "completed",
                                           !.persist_site = "create" ]
            /\ UNCHANGED << sessions, messages, now >>
       ELSE /\ messages' = Append(messages,
                MessageRow(session_id, "ai", full_response_text, sources, Some(ms), now))
            /\ now' = now + 1
            /\ IF sessions[Canon(session_id)].title # NewChat
               THEN /\ outcome' = [ outcome EXCEPT !.status = "completed" ]
                    /\ UNCHANGED sessions
               ELSE IF fail_at = "save"
               THEN /\ outcome' = [ outcome EXCEPT !.status = "completed",
                                                   !.persist_site = "save" ]
                    /\ UNCHANGED sessions
               ELSE /\ outcome' = [ outcome EXCEPT !.status = "completed" ]
                    /\ sessions' = [ sessions EXCEPT
                          ![Canon(session_id)].title = AutoTitle(current_message) ]
    /\ UNCHANGED << minted, reqVars, scoreVars, full_response_text, sources,
                    tool_calls, consumed >>
    /\ events' = IF fail_at \in { "get", "create", "save" } \/ ~SessionExists(sessions, session_id)
                 THEN Append(events, ErrorEvent)
                 ELSE events
    /\ UNCHANGED << reply, procs, cfgVars >>

\* lines 399-413; every failure is swallowed. fail_at: "", "get", "create",
\* "save": the database call that raises; get also raises when the session
\* row is gone
Persist(fail_at, ms) ==
    /\ pc = "persist"
    /\ pc' = "done"
    /\ suspended' = FALSE
    /\ IF fail_at = "get" \/ ~SessionExists(sessions, session_id)
       THEN /\ outcome' = [ outcome EXCEPT !.status = "completed", !.persist_site = "get" ]
            /\ UNCHANGED << sessions, messages, now >>
       ELSE IF fail_at = "create"
       THEN /\ outcome' = [ outcome EXCEPT !.status = "completed",
                                           !.persist_site = "create" ]
            /\ UNCHANGED << sessions, messages, now >>
       ELSE /\ messages' = Append(messages,
                MessageRow(session_id, "ai", full_response_text, sources, Some(ms), now))
            /\ now' = now + 1
            /\ IF sessions[Canon(session_id)].title # NewChat
               THEN /\ outcome' = [ outcome EXCEPT !.status = "completed" ]
                    /\ UNCHANGED sessions
               ELSE IF fail_at = "save"
               THEN /\ outcome' = [ outcome EXCEPT !.status = "completed",
                                                   !.persist_site = "save" ]
                    /\ UNCHANGED sessions
               ELSE /\ outcome' = [ outcome EXCEPT !.status = "completed" ]
                    /\ sessions' = [ sessions EXCEPT
                          ![Canon(session_id)].title = AutoTitle(current_message) ]
    /\ UNCHANGED << minted, reqVars, scoreVars, full_response_text, sources,
                    tool_calls, consumed, events >>
    /\ UNCHANGED << reply, procs, cfgVars >>

GenEnd_persists ==
    /\ pc = "after_error"
    /\ pc' = "done"
    /\ suspended' = FALSE
    /\ outcome' = [ outcome EXCEPT !.status = "error" ]
    /\ messages' = Append(messages,
          MessageRow(session_id, "ai", full_response_text, sources, Some(0), now))
    /\ now' = now + 1
    /\ UNCHANGED << sessions, minted, reqVars, scoreVars, full_response_text, sources,
                    tool_calls, consumed, events >>
    /\ UNCHANGED << reply, procs, cfgVars >>

\* the generator is resumed after the Error event and returns
GenEnd ==
    /\ pc = "after_error"
    /\ pc' = "done"
    /\ suspended' = FALSE
    /\ outcome' = [ outcome EXCEPT !.status = "error" ]
    /\ UNCHANGED << dbVars, reqVars, scoreVars, full_response_text, sources,
                    tool_calls, consumed, events >>
    /\ UNCHANGED << reply, procs, cfgVars >>

Close_keepsReading ==
    /\ suspended
    /\ pc \notin Idle
    /\ pc' = "closed"
    /\ suspended' = FALSE
    /\ outcome' = [ outcome EXCEPT !.status = "closed" ]
    /\ consumed' = consumed + 1
    /\ full_response_text' = full_response_text \o << 120 >>
    /\ UNCHANGED << dbVars, reqVars, scoreVars, sources, tool_calls, events >>
    /\ UNCHANGED << reply, procs, cfgVars >>

\* the consumer drops the stream: GeneratorExit at the yield the generator is
\* parked at, which `except Exception` does not catch
Close ==
    /\ suspended
    /\ pc \notin Idle
    /\ pc' = "closed"
    /\ suspended' = FALSE
    /\ outcome' = [ outcome EXCEPT !.status = "closed" ]
    /\ UNCHANGED << dbVars, reqVars, scoreVars, full_response_text, sources,
                    tool_calls, consumed, events >>
    /\ UNCHANGED << reply, procs, cfgVars >>

----------------------------------------------------------------------------
(* The history / session query surface (lines 489-583) *)

\* filter(session_id=sid)
SessionRows(tbl, sid) ==
    { tbl[i] : i \in { j \in 1..Len(tbl) : tbl[j].session = Canon(sid) } }

\* order_by('created_at')
OrderByAsc(rows) == Reverse(OrderByDesc(rows))

\* lines 504-509: the role is returned as stored
HistoryItem(row) ==
    [ role |-> row.role, text |-> row.content, sources |-> row.sources,
      elapsed |-> row.elapsed_time ]

\* lines 499 and 527:
\* session and session.user and current_user and session.user != current_user
PermissionDenied(tbl, caller, sid) ==
    /\ SessionExists(tbl, sid)
    /\ tbl[Canon(sid)].user # None
    /\ caller # None
    /\ tbl[Canon(sid)].user # caller

NoReply ==
    [ op |-> "", caller |-> None, sid |-> None, success |-> TRUE,
      rows |-> << >>, deleted |-> 0 ]

\* lines 489-516; a malformed identifier raises ValidationError in the filter
get_history(caller, sid) ==
    /\ reply' =
         [ NoReply EXCEPT
             !.op = "get_history", !.caller = caller, !.sid = sid,
             !.rows =
                 IF ~IsValidUUID(sid) \/ PermissionDenied(sessions, caller, sid)
                 THEN << >>
                 ELSE LET rows == OrderByAsc(SessionRows(messages, sid))
                      IN  [ i \in 1..Len(rows) |-> HistoryItem(rows[i]) ] ]
    /\ UNCHANGED << dbVars, reqVars, pc, suspended, scoreVars, outVars, procs, cfgVars >>

\* the table without the rows of the session
WithoutSession(tbl, sid) ==
    SelectSeq(tbl, LAMBDA r : r.session # Canon(sid))

\* ChatSession.objects.filter(id=sid).delete()
DropSession(tbl, sid) ==
    [ k \in (DOMAIN tbl) \ { Canon(sid) } |-> tbl[k] ]

\* lines 518-539
delete_session(caller, sid) ==
    /\ IF ~IsValidUUID(sid) \/ PermissionDenied(sessions, caller, sid)
       THEN /\ reply' = [ NoReply EXCEPT !.op = "delete_session", !.caller = caller,
                                         !.sid = sid, !.success = FALSE ]
            /\ UNCHANGED << sessions, messages >>
       ELSE /\ reply' = [ NoReply EXCEPT !.op = "delete_session", !.caller = caller,
                                         !.sid = sid,
                                         !.deleted = Cardinality(SessionRows(messages, sid)) ]
            /\ messages' = WithoutSession(messages, sid)
            /\ sessions' = DropSession(sessions, sid)
    /\ UNCHANGED << now, minted, reqVars, pc, suspended, scoreVars, outVars, procs, cfgVars >>

\* lines 571-583: no ownership check; a missing or malformed identifier fails
update_session_title(sid, title) ==
    /\ IF SessionExists(sessions, sid)
       THEN /\ sessions' = [ sessions EXCEPT ![Canon(sid)].title = title ]
            /\ reply' = [ NoReply EXCEPT !.op = "update_session_title", !.sid = sid ]
       ELSE /\ reply' = [ NoReply EXCEPT !.op = "update_session_title", !.sid = sid,
                                         !.success = FALSE ]
            /\ UNCHANGED sessions
    /\ UNCHANGED << messages, now, minted, reqVars, pc, suspended, scoreVars,
                    outVars, procs, cfgVars >>

----------------------------------------------------------------------------
(* chat_stream as concurrent requests: each worker runs lines 425-476 one   *)
(* database call at a time, on the shared tables                            *)

Workers == { "w1", "w2" }

\* the locals of a worker that serves no request
IdleWorker ==
    [ pc |-> "idle", session_id |-> None, user |-> None, text |-> << >>,
      missed |-> FALSE, msg_at |-> 0, history |-> << >>, error |-> "" ]

Settled == { "idle", "done", "raised", "rejected" }

\* the reply the generator of a worker streams: "x"
ReplyText == << 120 >>

\* lines 425-431: the request arrives
Submit(w, req) ==
    /\ procs[w].pc \in Settled
    /\ turn' = turn + 1
    /\ procs' = [ procs EXCEPT ![w] =
          [ IdleWorker EXCEPT
              !.pc = IF Truthy(req.session_id) THEN "get" ELSE "create",
              !.session_id = req.session_id, !.user = req.user, !.text = req.text ] ]
    /\ UNCHANGED << dbVars, request, session_id, current_message, use_rag, history,
                    pc, suspended, scoreVars, outVars, reply, cfgVars >>

\* lines 434-439: ChatSession.objects.get(id=session_id)
GetSession(w) ==
    /\ procs[w].pc = "get"
    /\ procs' = [ procs EXCEPT ![w] =
          IF SessionExists(sessions, procs[w].session_id)
          THEN [ @ EXCEPT !.pc =
                   IF sessions[Canon(procs[w].session_id)].user = None
                      /\ procs[w].user # None
                   THEN "bind" ELSE "text" ]
          ELSE [ @ EXCEPT !.pc = "create", !.missed = TRUE ] ]
    /\ UNCHANGED << dbVars, reqVars, pc, suspended, scoreVars, outVars, reply, cfgVars >>

\* lines 437-438: session.user = current_user; session.save(update_fields=['user'])
BindUser(w) ==
    /\ procs[w].pc = "bind"
    /\ IF SessionExists(sessions, procs[w].session_id)
       THEN /\ sessions' = [ sessions EXCEPT
                   ![Canon(procs[w].session_id)].user = procs[w].user ]
            /\ procs' = [ procs EXCEPT ![w].pc = "text" ]
       ELSE \* the row is gone: DatabaseError, not caught
            /\ procs' = [ procs EXCEPT ![w].pc = "raised", ![w].error = "DatabaseError" ]
            /\ UNCHANGED sessions
    /\ UNCHANGED << messages, now, minted, reqVars, pc, suspended, scoreVars,
                    outVars, reply, cfgVars >>

\* lines 441-452: create under the client's identifier, or under a minted one.
\* A primary key that exists by now gives IntegrityError, which the handlers
\* of lines 439 and 445 do not catch.
CreateOrMint(w) ==
    /\ procs[w].pc = "create"
    /\ IF Truthy(procs[w].session_id) /\ IsValidUUID(procs[w].session_id)
       THEN IF Canon(procs[w].session_id) \in DOMAIN sessions
            THEN /\ procs' = [ procs EXCEPT ![w].pc = "raised",
                                            ![w].error = "IntegrityError" ]
                 /\ UNCHANGED << sessions, minted >>
            ELSE /\ sessions' = CreateSession(sessions, procs[w].session_id, procs[w].user)
                 /\ procs' = [ procs EXCEPT ![w].pc = "text" ]
                 /\ UNCHANGED minted
       ELSE /\ minted < Len(MintPool)
            /\ sessions' = CreateSession(sessions, MintPool[minted + 1], procs[w].user)
            /\ minted' = minted + 1
            /\ procs' = [ procs EXCEPT ![w].pc = "text",
                                       ![w].session_id = MintPool[minted + 1] ]
    /\ UNCHANGED << messages, now, reqVars, pc, suspended, scoreVars, outVars, reply, cfgVars >>

\* lines 457-469: the user message is stored
SaveUserMessage(w) ==
    /\ procs[w].pc = "text"
    /\ IF procs[w].text = << >>
       THEN /\ procs' = [ procs EXCEPT ![w].pc = "rejected" ]
            /\ UNCHANGED << messages, now >>
       ELSE IF ~SessionExists(sessions, procs[w].session_id)
       THEN \* the session row is gone: the foreign key fails
            /\ procs' = [ procs EXCEPT ![w].pc = "raised", ![w].error = "IntegrityError" ]
            /\ UNCHANGED << messages, now >>
       ELSE /\ messages' = Append(messages,
                MessageRow(procs[w].session_id, "user", procs[w].text, << >>, Null, now))
            /\ now' = now + 1
            /\ procs' = [ procs EXCEPT ![w].pc = "history", ![w].msg_at = now ]
    /\ UNCHANGED << sessions, minted, reqVars, pc, suspended, scoreVars, outVars, reply, cfgVars >>

\* lines 473-476: the history is read, and its last entry dropped when it has
\* the role and the content of the message just stored
LoadOwnHistory(w) ==
    /\ procs[w].pc = "history"
    /\ procs' = [ procs EXCEPT
          ![w].pc = "streaming",
          ![w].history = PopOwnMessage(get_chat_history(messages, procs[w].session_id),
                                       procs[w].text) ]
    /\ UNCHANGED << dbVars, reqVars, pc, suspended, scoreVars, outVars, reply, cfgVars >>

\* lines 399-413, after the generator of the worker streamed its reply
PersistReply(w) ==
    /\ procs[w].pc = "streaming"
    /\ procs' = [ procs EXCEPT ![w].pc = "done" ]
    /\ IF ~SessionExists(sessions, procs[w].session_id)
       THEN UNCHANGED << sessions, messages, now >>
       ELSE /\ messages' = Append(messages,
                MessageRow(procs[w].session_id, "ai", ReplyText, << >>, Some(0), now))
            /\ now' = now + 1
            /\ IF sessions[Canon(procs[w].session_id)].title = NewChat
               THEN sessions' = [ sessions EXCEPT
                        ![Canon(procs[w].session_id)].title = AutoTitle(procs[w].text) ]
               ELSE UNCHANGED sessions
    /\ UNCHANGED << minted, reqVars, pc, suspended, scoreVars, outVars, reply, cfgVars >>

----------------------------------------------------------------------------
(* core/llm.py: the process-wide generation handle and its configuration.   *)
(* A signature f"{id}_{updated_at}" is the pair << id, updated_at >>; a      *)
(* handle is identified by the signature of the configuration it was built  *)
(* from.  Reading the table is assumed to succeed.                          *)

ConfigIds == { 1, 2 }

\* _current_config_id = None
NoSig == << >>

\* _current_config_id = "ENV"
EnvSig == << 0, 0 >>

\* line 36
Signature(cfg) == << cfg.id, cfg.updated_at >>

\* os.getenv("OPENAI_API_KEY") is set
EnvApiKey == TRUE

ActiveIds(tbl) == { k \in DOMAIN tbl : tbl[k].is_active }

\* LLMConfig.objects.filter(is_active=True).first(), ordering -created_at
ActiveConfig(tbl) ==
    IF ActiveIds(tbl) = {} THEN Null
    ELSE LET k == CHOOSE a \in ActiveIds(tbl) : \A b \in ActiveIds(tbl) : b <= a
         IN  Some([ id |-> k, updated_at |-> tbl[k].updated_at,
                    api_key |-> tbl[k].api_key ])

\* LLMConfig.save(): an activated configuration deactivates the others with a
\* queryset update, which leaves their updated_at alone; auto_now stamps the
\* saved row
llm_config_save(id, active, key) ==
    /\ now <= MaxSaves
    /\ llm_configs' =
          [ k \in (DOMAIN llm_configs) \cup { id } |->
              IF k = id
              THEN [ is_active |-> active, api_key |-> key, updated_at |-> now ]
              ELSE IF active
                   THEN [ llm_configs[k] EXCEPT !.is_active = FALSE ]
                   ELSE llm_configs[k] ]
    /\ now' = now + 1
    /\ UNCHANGED << sessions, messages, minted, reqVars, pc, suspended, scoreVars,
                    outVars, reply, procs, llm_instance, current_config_id,
                    callers, mcpVars >>

LlmCallers == { "t1", "t2" }

\* the locals of init_llm; source: the signature the handle is being built
\* from; ret: the returned value
IdleCaller ==
    [ pc |-> "idle", db_config |-> Null, source |-> NoSig, api_key |-> FALSE,
      ret |-> Null ]

\* lines 20-29
init_llm_read(t) ==
    /\ callers[t].pc \in { "idle", "returned", "raised" }
    /\ callers' = [ callers EXCEPT ![t] =
          [ IdleCaller EXCEPT !.pc = "check",
                              !.db_config = ActiveConfig(llm_configs) ] ]
    /\ UNCHANGED << dbVars, reqVars, pc, suspended, scoreVars, outVars, reply, procs,
                    llm_configs, llm_instance, current_config_id, mcpVars >>

\* lines 33-58
init_llm_check(t) ==
    /\ callers[t].pc = "check"
    /\ IF callers[t].db_config # Null
       THEN LET cfg == callers[t].db_config[1]
            IN  IF current_config_id # Signature(cfg)
                THEN /\ llm_instance' = Null
                     /\ current_config_id' = Signature(cfg)
                     /\ callers' = [ callers EXCEPT ![t].pc = "build",
                                                    ![t].source = Signature(cfg),
                                                    ![t].api_key = cfg.api_key ]
                ELSE /\ callers' = [ callers EXCEPT ![t].pc = "returned",
                                                    ![t].ret = llm_instance ]
                     /\ UNCHANGED << llm_instance, current_config_id >>
       ELSE IF llm_instance = Null
       THEN /\ current_config_id' = EnvSig
            /\ callers' = [ callers EXCEPT ![t].pc = "build",
                                           ![t].source = EnvSig,
                                           ![t].api_key = EnvApiKey ]
            /\ UNCHANGED llm_instance
       ELSE /\ callers' = [ callers EXCEPT ![t].pc = "returned",
                                           ![t].ret = llm_instance ]
            /\ UNCHANGED << llm_instance, current_config_id >>
    /\ UNCHANGED << dbVars, reqVars, pc, suspended, scoreVars, outVars, reply, procs,
                    llm_configs, mcpVars >>

\* lines 60-93. built: init_embedding and the handle's constructor succeed;
\* when one of them raises, the exception leaves init_llm
init_llm_build(t, built) ==
    /\ callers[t].pc = "build"
    /\ IF ~callers[t].api_key
       THEN /\ callers' = [ callers EXCEPT ![t].pc = "returned", ![t].ret = Null ]
            /\ UNCHANGED llm_instance
       ELSE IF ~built
       THEN /\ callers' = [ callers EXCEPT ![t].pc = "raised" ]
            /\ UNCHANGED llm_instance
       ELSE /\ llm_instance' = Some(callers[t].source)
            /\ callers' = [ callers EXCEPT ![t].pc = "returned",
                                           ![t].ret = Some(callers[t].source) ]
    /\ UNCHANGED << dbVars, reqVars, pc, suspended, scoreVars, outVars, reply, procs,
                    llm_configs, current_config_id, mcpVars >>

----------------------------------------------------------------------------
(* core/mcp_tools.py: the tool list of the connected servers and its cache.  *)
(* Reading the table is assumed to succeed.                                  *)

McpServers == { "amap", "brave" }

\* the tools each server offers, in the order it lists them
ServerTools == [ amap |-> << "weather", "route" >>, brave |-> << "search" >> ]

\* MCPServerConfig.status
McpStatus == { "unknown", "connected", "failed" }

\* MCPServerConfig.save() from the admin form or from test_connection:
\* auto_now stamps the saved row
mcp_config_save(name, active, status) ==
    /\ now <= MaxSaves
    /\ mcp_configs' =
          [ k \in (DOMAIN mcp_configs) \cup { name } |->
              IF k = name
              THEN [ is_active |-> active, status |-> status, updated_at |-> now ]
              ELSE mcp_configs[k] ]
    /\ now' = now + 1
    /\ UNCHANGED << sessions, messages, minted, reqVars, pc, suspended, scoreVars,
                    outVars, reply, procs, llmVars, mcp_tools_cache,
                    mcp_cache_timestamp, tool_server_map >>

\* lines 31-34: filter(is_active=True, status='connected')
ActiveConnected(tbl) ==
    { k \in DOMAIN tbl : tbl[k].is_active /\ tbl[k].status = "connected" }

\* the queryset in its order (Meta.ordering: name)
ActiveConfigs(tbl) ==
    IF "amap" \in ActiveConnected(tbl)
    THEN IF "brave" \in ActiveConnected(tbl) THEN << "amap", "brave" >>
         ELSE << "amap" >>
    ELSE IF "brave" \in ActiveConnected(tbl) THEN << "brave" >> ELSE << >>

\* line 40
LatestUpdate(tbl) ==
    CHOOSE m \in { tbl[k].updated_at : k \in ActiveConnected(tbl) } :
        \A k \in ActiveConnected(tbl) : tbl[k].updated_at <= m

RECURSIVE LoadAll(_, _, _)
\* lines 48-62: the servers whose load raises are skipped.
\* acc = [tools, map]
LoadAll(configs, failing, acc) ==
    IF configs = << >> THEN acc
    ELSE IF configs[1] \in failing THEN LoadAll(Tail(configs), failing, acc)
    ELSE LoadAll(Tail(configs), failing,
            [ tools |-> acc.tools \o ServerTools[configs[1]],
              map   |-> [ t \in (DOMAIN acc.map) \cup
                                { ServerTools[configs[1]][i] :
                                    i \in 1..Len(ServerTools[configs[1]]) } |->
                            IF t \in DOMAIN acc.map THEN acc.map[t]
                            ELSE configs[1] ] ])

\* lines 41-42, for a table with an active connected server
CacheValid ==
    /\ mcp_tools_cache # Null
    /\ mcp_cache_timestamp = Some(LatestUpdate(mcp_configs))

\* lines 16-73, as called at chat.py line 102: mcp_tools = get_mcp_tools().
\* failing: the servers whose _load_mcp_tools_sync raises
get_mcp_tools(failing) ==
    /\ pc = "idle"
    /\ IF ActiveConnected(mcp_configs) = {}
       THEN /\ mcp_tools' = << >>
            /\ UNCHANGED << mcp_tools_cache, mcp_cache_timestamp, tool_server_map >>
       ELSE IF CacheValid
       THEN /\ mcp_tools' = mcp_tools_cache[1]
            /\ UNCHANGED << mcp_tools_cache, mcp_cache_timestamp, tool_server_map >>
       ELSE LET loaded == LoadAll(ActiveConfigs(mcp_configs), failing,
                                  [ tools |-> << >>, map |-> << >> ])
            IN  /\ mcp_tools' = loaded.tools
                /\ mcp_tools_cache' = Some(loaded.tools)
                /\ tool_server_map' = loaded.map
                /\ mcp_cache_timestamp' = Some(LatestUpdate(mcp_configs))
    /\ UNCHANGED << dbVars, reqVars, pc, suspended, llm, retrieved_nodes, max_score,
                    keyword_match, is_exact_match, keyword_results,
                    tool_match_score, matched_tool_name, tool_sims, selected_mode,
                    outVars, reply, procs, llmVars, mcp_configs >>

\* the process has just started: empty tables, nothing cached
InitConfig ==
    /\ llm_configs = << >>
    /\ llm_instance = Null
    /\ current_config_id = NoSig
    /\ callers = [ t \in LlmCallers |-> IdleCaller ]
    /\ mcp_configs = << >>
    /\ mcp_tools_cache = Null
    /\ mcp_cache_timestamp = Null
    /\ tool_server_map = << >>

----------------------------------------------------------------------------
(* Inputs *)

\* a path is a sequence of segments; << >> is a missing entry
Node(score, file, page) == [ score |-> score, file |-> file, page |-> page ]

Row(file, title, page, meta_ok) ==
    [ file |-> file, title |-> title, page |-> page, meta_ok |-> meta_ok ]

Failed == [ ok |-> FALSE, rows |-> << >> ]

Request(sid, u, text, rag) ==
    [ session_id |-> sid, user |-> u, text |-> text, use_rag |-> rag ]

InitDB ==
    /\ sessions = << >>
    /\ messages = << >>
    /\ now = 1
    /\ minted = 0

InitFrame ==
    /\ turn = 0
    /\ request = Request(None, None, << >>, TRUE)
    /\ pc = "idle"
    /\ suspended = FALSE
    /\ session_id = None
    /\ current_message = << >>
    /\ use_rag = TRUE
    /\ history = << >>
    /\ llm = ""
    /\ mcp_tools = << >>
    /\ retrieved_nodes = << >>
    /\ max_score = 0
    /\ keyword_match = FALSE
    /\ is_exact_match = FALSE
    /\ keyword_results = << >>
    /\ tool_match_score = 0
    /\ matched_tool_name = None
    /\ tool_sims = << >>
    /\ selected_mode = ""
    /\ full_response_text = << >>
    /\ sources = << >>
    /\ tool_calls = << >>
    /\ consumed = 0
    /\ events = << >>
    /\ outcome = NoOutcome
    /\ reply = NoReply
    /\ InitConfig
    /\ procs = [ w \in Workers |-> IdleWorker ]

Init == InitDB /\ InitFrame

----------------------------------------------------------------------------
(* SpecRouter: one turn up to the routing decision, over the whole score grid *)

RouterTexts == { T_hi, T_abc, T_zh, T_haha, T_blank }

RouterRequests ==
    { Request(None, None, t, rag) : t \in RouterTexts, rag \in BOOLEAN }

RouterNodeLists ==
    { << >>, << Node(Null, << "a.pdf" >>, 1) >> }
    \cup { << Node(Some(s), << "a.pdf" >>, 1) >> : s \in Scores }

RouterRows == { << >>, << Row(<< "a.pdf" >>, << >>, 1, TRUE) >> }

\* cosine similarities, in hundredths; one negative value
RouterSims == { Null, Some(0 - 20) } \cup { Some(s) : s \in Scores }

NextRouter ==
    \/ turn = 0 /\ \E r \in RouterRequests : chat_stream(r)
    \/ \E res \in { "ok", "none", "raise" } : GenInit(res)
    \/ \E tools \in { << >>, << "weather" >> } : LoadTools(tools)
    \/ \E ok \in BOOLEAN, nodes \in RouterNodeLists :
          VectorRetrieve([ ok |-> ok, nodes |-> nodes ])
    \/ \E eok \in BOOLEAN, fok \in BOOLEAN, er \in RouterRows, fr \in RouterRows :
          KeywordSearch([ ok |-> eok, rows |-> er ], [ ok |-> fok, rows |-> fr ])
    \/ \E qok \in BOOLEAN, sims \in [ 1..Len(mcp_tools) -> RouterSims ] :
          ToolMatch(qok, sims)
    \/ Route

SpecRouter == Init /\ [][NextRouter]_vars

----------------------------------------------------------------------------
(* Spec: one turn on a fresh database, every branch and every failure *)

StreamRequests ==
    { Request(sid, u, t, rag) :
        sid \in { None, "c1", "zz" }, u \in { None, "alice" },
        t \in { << >>, T_hi, T_zh }, rag \in BOOLEAN }

\* the retriever's answers: nothing, null scores only, a single low or high
\* score, two passages of one page, passages of two files
StreamNodeLists ==
    { << >>,
      << Node(Null, << "a.pdf" >>, 1) >>,
      << Node(Some(35), << "a.pdf" >>, 1) >>,
      << Node(Some(45), << "docs", "a.pdf" >>, 1), Node(Null, << "a.pdf" >>, 1) >>,
      << Node(Some(60), << "a.pdf" >>, 1), Node(Some(80), << >>, 0) >> }

StreamRows ==
    { << >>,
      << Row(<< "a.pdf" >>, << >>, 1, FALSE) >>,
      << Row(<< >>, << "b.pdf" >>, 2, TRUE), Row(<< "x", "b.pdf" >>, << >>, 2, TRUE) >> }

StreamToolLists == { << >>, << "weather", "route" >> }

StreamSims == { Null, Some(30), Some(45), Some(70) }

\* deltas of the generation backend: "", "x", "y"
Deltas == { << >>, << 120 >>, << 121 >> }

Call(name, args, exec_ok) == [ tool_name |-> name, args |-> args, exec_ok |-> exec_ok ]

StreamCallLists ==
    { << >>,
      << Call("weather", "city=x", TRUE) >>,
      << Call("weather", "city=x", FALSE), Call("weather", "city=x", TRUE) >> }

\* direct replies: None, "", "x" and a text one longer than a slice
LongText == [ i \in 1..(CHUNK_SIZE + 1) |-> 97 + (i % 26) ]

Contents == { Null, Some(<< >>), Some(<< 120 >>), Some(LongText) }

ElapsedValues == { 0, 1 }

Next ==
    \/ turn = 0 /\ \E r \in StreamRequests : chat_stream(r)
    \/ \E res \in { "ok", "none", "raise" } : GenInit(res)
    \/ \E tools \in StreamToolLists : LoadTools(tools)
    \/ \E ok \in BOOLEAN, nodes \in StreamNodeLists :
          VectorRetrieve([ ok |-> ok, nodes |-> nodes ])
    \/ \E eok \in BOOLEAN, fok \in BOOLEAN, er \in StreamRows, fr \in StreamRows :
          KeywordSearch([ ok |-> eok, rows |-> er ], [ ok |-> fok, rows |-> fr ])
    \/ \E qok \in BOOLEAN, sims \in [ 1..Len(mcp_tools) -> StreamSims ] :
          ToolMatch(qok, sims)
    \/ Route
    \/ RagPrepare
    \/ \E ok \in BOOLEAN, calls \in StreamCallLists, content \in Contents :
          ToolCall([ ok |-> ok, calls |-> calls, content |-> content ])
    \/ ToolDirect
    \/ \E d \in Deltas : StreamChunk(d)
    \/ StreamEnd
    \/ StreamRaise
    \/ Finish
    \/ \E f \in { "", "get", "create", "save" }, ms \in ElapsedValues : Persist(f, ms)
    \/ GenEnd
    \/ Close

Spec == Init /\ [][Next]_vars

----------------------------------------------------------------------------
(* SpecSession: several turns, any session identifier; the generator runs   *)
(* the plain CHAT path or is dropped by the consumer                        *)

SessionIds ==
    { None, "" } \cup ClientIds \cup AliasIds \cup MalformedIds \cup DOMAIN sessions

SessionRequests ==
    { Request(sid, u, t, FALSE) :
        sid \in SessionIds, u \in { None } \cup Users, t \in { << >>, T_hi } }

NextSession ==
    \/ turn < MaxTurns /\ \E r \in SessionRequests : chat_stream(r)
    \/ GenInit("ok")
    \/ LoadTools(<< >>)
    \/ VectorRetrieve([ ok |-> FALSE, nodes |-> << >> ])
    \/ KeywordSearch(Failed, Failed)
    \/ ToolMatch(TRUE, << >>)
    \/ Route
    \/ StreamChunk(<< 120 >>)
    \/ StreamEnd
    \/ Finish
    \/ Persist("", 0)
    \/ Close

SpecSession == Init /\ [][NextSession]_vars

----------------------------------------------------------------------------
(* SpecHistory: get_chat_history over stored conversations of up to        *)
(* HISTORY_LIMIT + ExtraRows messages                                      *)

Roles == { "user", "ai", "system" }

\* row i of a stored conversation: its role follows a pattern of period 3,
\* every other-th row belongs to a second session
StoredRow(i, roles, other) ==
    MessageRow(IF other > 0 /\ i % other = 0 THEN "c2" ELSE "c1",
               roles[(i % 3) + 1], << 96 + i >>, << >>, Null, i)

StoredTable(n, roles, other, rev) ==
    LET rows == [ i \in 1..n |-> StoredRow(i, roles, other) ]
    IN  IF rev THEN Reverse(rows) ELSE rows

InitHistory ==
    /\ InitFrame
    /\ minted = 0
    /\ sessions = CreateSession(CreateSession(<< >>, "c1", None), "c2", None)
    /\ \E n \in 0..(HISTORY_LIMIT + ExtraRows), roles \in [ 1..3 -> Roles ],
          other \in { 0, 2, 3 }, rev \in BOOLEAN :
          /\ messages = StoredTable(n, roles, other, rev)
          /\ now = n + 1

\* history = get_chat_history(session_id)
LoadHistory(sid) ==
    /\ pc = "idle"
    /\ pc' = "history"
    /\ session_id' = sid
    /\ history' = get_chat_history(messages, sid)
    /\ UNCHANGED << dbVars, turn, request, current_message, use_rag, suspended,
                    scoreVars, outVars >>
    /\ UNCHANGED << reply, procs, cfgVars >>

NextHistory == \E sid \in { None, "c1", "c2", "C1", "m1" } : LoadHistory(sid)

SpecHistory == InitHistory /\ [][NextHistory]_vars

----------------------------------------------------------------------------
(* SpecAccess: one turn on the plain CHAT path, on a database that holds a  *)
(* session of alice and a session nobody owns, with history, delete and     *)
(* rename requests of any caller arriving at any moment                     *)

InitAccess ==
    /\ InitFrame
    /\ minted = 0
    /\ sessions = [ CreateSession(CreateSession(<< >>, "c1", "alice"), "c2", None)
                      EXCEPT !["c1"].title = T_abc ]
    /\ messages = << MessageRow("c1", "user", T_abc, << >>, Null, 1),
                     MessageRow("c2", "user", T_hi, << >>, Null, 2),
                     MessageRow("c1", "ai", << 120 >>, << >>, Some(0), 3) >>
    /\ now = 4

AccessRequests ==
    { Request(sid, u, t, FALSE) :
        sid \in { "c1", "c2", "zz" }, u \in { None } \cup Users, t \in { << >>, T_hi } }

Callers == { None } \cup Users

AccessIds == { "c1", "c2", "zz" }

NextAccess ==
    \/ turn = 0 /\ \E r \in AccessRequests : chat_stream(r)
    \/ GenInit("ok")
    \/ LoadTools(<< >>)
    \/ VectorRetrieve([ ok |-> FALSE, nodes |-> << >> ])
    \/ KeywordSearch(Failed, Failed)
    \/ ToolMatch(TRUE, << >>)
    \/ Route
    \/ StreamChunk(<< 120 >>)
    \/ StreamEnd
    \/ StreamRaise
    \/ GenEnd
    \/ Finish
    \/ \E f \in { "", "get", "create", "save" } : Persist(f, 0)
    \/ Close
    \/ \E c \in Callers, sid \in AccessIds : get_history(c, sid)
    \/ \E c \in Callers, sid \in AccessIds : delete_session(c, sid)
    \/ \E sid \in { "c2", "zz" } : update_session_title(sid, T_hi)

SpecAccess == InitAccess /\ [][NextAccess]_vars

----------------------------------------------------------------------------
(* SpecTitle: one turn on the plain CHAT path, over user messages around    *)
(* the title length                                                         *)

\* "  hi" followed by blanks: 21 characters, 2 after trimming
T_padded == << 32, 32, 104, 105 >> \o [ i \in 1..(TITLE_LEN - 3) |-> 32 ]

\* exactly 20 characters
T_twenty == [ i \in 1..TITLE_LEN |-> 97 + (i % 26) ]

\* 21 characters, none of them blank
T_long == [ i \in 1..(TITLE_LEN + 1) |-> 97 + (i % 26) ]

\* a blank, then 21 characters
T_padlong == << 32 >> \o T_long

TitleTexts == { T_hi, T_blank, T_padded, T_twenty, T_long, T_padlong, NewChat }

TitleRequests ==
    { Request(sid, u, t, FALSE) :
        sid \in { None, "c1" }, u \in { None, "alice" }, t \in TitleTexts }

NextTitle ==
    \/ turn = 0 /\ \E r \in TitleRequests : chat_stream(r)
    \/ GenInit("ok")
    \/ LoadTools(<< >>)
    \/ VectorRetrieve([ ok |-> FALSE, nodes |-> << >> ])
    \/ KeywordSearch(Failed, Failed)
    \/ ToolMatch(TRUE, << >>)
    \/ Route
    \/ \E d \in Deltas : StreamChunk(d)
    \/ StreamEnd
    \/ Finish
    \/ \E f \in { "", "save" } : Persist(f, 0)

SpecTitle == Init /\ [][NextTitle]_vars

----------------------------------------------------------------------------
(* SpecConcurrent: two workers serve turn requests at the same time, on a   *)
(* database that holds one session nobody owns yet                          *)

InitConcurrent ==
    /\ InitFrame
    /\ minted = 0
    /\ sessions = CreateSession(<< >>, "c2", None)
    /\ messages = << MessageRow("c2", "user", T_abc, << >>, Null, 1),
                     MessageRow("c2", "ai", ReplyText, << >>, Some(0), 2) >>
    /\ now = 3

ConcurrentRequests ==
    { Request(sid, u, t, FALSE) :
        sid \in { "c1", "c2", "zz" }, u \in { None } \cup Users,
        t \in { << >>, T_hi, T_abc } }

NextConcurrent ==
    \/ turn < MaxTurns /\ \E w \in Workers, r \in ConcurrentRequests : Submit(w, r)
    \/ \E w \in Workers : GetSession(w)
    \/ \E w \in Workers : BindUser(w)
    \/ \E w \in Workers : CreateOrMint(w)
    \/ \E w \in Workers : SaveUserMessage(w)
    \/ \E w \in Workers : LoadOwnHistory(w)
    \/ \E w \in Workers : PersistReply(w)

SpecConcurrent == InitConcurrent /\ [][NextConcurrent]_vars

----------------------------------------------------------------------------
(* SpecLlm: one caller of init_llm at a time, while configurations are      *)
(* saved in the admin                                                       *)

NextLlm ==
    \/ \E id \in ConfigIds, active \in BOOLEAN, key \in BOOLEAN :
          llm_config_save(id, active, key)
    \/ init_llm_read("t1")
    \/ init_llm_check("t1")
    \/ \E built \in BOOLEAN : init_llm_build("t1", built)

SpecLlm == Init /\ [][NextLlm]_vars

----------------------------------------------------------------------------
(* SpecLlmConcurrent: two threads call init_llm at the same time             *)

NextLlmConcurrent ==
    \/ \E id \in ConfigIds, active \in BOOLEAN, key \in BOOLEAN :
          llm_config_save(id, active, key)
    \/ \E t \in LlmCallers : init_llm_read(t)
    \/ \E t \in LlmCallers : init_llm_check(t)
    \/ \E t \in LlmCallers, built \in BOOLEAN : init_llm_build(t, built)

SpecLlmConcurrent == Init /\ [][NextLlmConcurrent]_vars

----------------------------------------------------------------------------
(* SpecTools: get_mcp_tools called between saves of the server table         *)

NextTools ==
    \/ \E name \in McpServers, active \in BOOLEAN, status \in McpStatus :
          mcp_config_save(name, active, status)
    \/ \E failing \in SUBSET McpServers : get_mcp_tools(failing)

SpecTools == Init /\ [][NextTools]_vars

----------------------------------------------------------------------------
(* Properties *)

\* the match classification of the text search: exact, fuzzy or none
MatchKind ==
    IF is_exact_match THEN "exact" ELSE IF keyword_match THEN "fuzzy" ELSE "none"

\* the reference router, in hundredths
RefEffectiveRetrieval(r, mk) ==
    IF r >= 50 \/ (mk # "none" /\ r >= 30) THEN r ELSE 0

RefEffectiveTool(t) == IF t >= 40 THEN t ELSE 0

RefMode(r, mk, t) ==
    IF RefEffectiveRetrieval(r, mk) > 0
       /\ RefEffectiveRetrieval(r, mk) >= RefEffectiveTool(t)
    THEN "rag"
    ELSE IF RefEffectiveTool(t) > 0
            /\ RefEffectiveTool(t) > RefEffectiveRetrieval(r, mk)
    THEN "tool"
    ELSE "chat"

Routed == selected_mode # ""

\* C1: for scores in [0,1] and every match kind, the mode selected for the
\* turn is the one the reference router gives for (retrieval_score,
\* match_kind, tool_score), and so depends on these three inputs only.
C1_RouterMatchesReference ==
    Routed =>
        /\ max_score \in 0..100
        /\ tool_match_score \in 0..100
        /\ selected_mode = RefMode(max_score, MatchKind, tool_match_score)

C1_Witness ==
    /\ selected_mode = "tool"
    /\ MatchKind = "exact"
    /\ max_score >= 30
    /\ tool_match_score > max_score

LoweredPath == Routed /\ MatchKind \in { "exact", "fuzzy" } /\ max_score >= 30 /\ max_score < 50

\* C2 as stated: with a text match and a retrieval score in [0.3, 0.5) the
\* mode is RAG whatever the tool score is.
C2_Original == LoweredPath => selected_mode = "rag"

\* C2, amended: with a text match and a retrieval score in [0.3, 0.5) the
\* mode is RAG unless tool_score >= 0.4 and tool_score > retrieval_score;
\* in that case the mode is TOOL.
C2_LoweredThreshold ==
    LoweredPath =>
        IF tool_match_score >= 40 /\ tool_match_score > max_score
        THEN selected_mode = "tool"
        ELSE selected_mode = "rag"

C2_Witness ==
    /\ LoweredPath
    /\ MatchKind = "fuzzy"
    /\ tool_match_score >= 40
    /\ selected_mode = "rag"

RawTie == Routed /\ max_score = tool_match_score /\ max_score > 0

\* C3 as stated: equal nonzero retrieval and tool scores give RAG, for every
\* match kind.
C3_Original == RawTie => selected_mode = "rag"

\* C3, amended: equal nonzero scores give RAG when the score is at least 0.5,
\* or at least 0.3 with a text match (a tie of the effective scores favours
\* RAG); below that bar they give TOOL (score >= 0.4) or CHAT.
C3_TieFavoursRag ==
    RawTie =>
        selected_mode =
            IF max_score >= 50 \/ (MatchKind # "none" /\ max_score >= 30) THEN "rag"
            ELSE IF max_score >= 40 THEN "tool"
            ELSE "chat"

C3_Witness ==
    /\ RawTie
    /\ MatchKind = "none"
    /\ max_score >= 50
    /\ selected_mode = "rag"

\* C4: no failure of a turn leaves stream_generator as an exception.
C4_NothingEscapes == outcome.status # "raised"

RECURSIVE ConcatTexts(_)
ConcatTexts(evs) ==
    IF evs = << >> THEN << >> ELSE evs[1].text \o ConcatTexts(Tail(evs))

Front(evs) == SubSeq(evs, 1, Len(evs) - 1)

\* text events only, then the Error event, which is the last one
TextsThenError ==
    /\ events # << >>
    /\ events[Len(events)] = ErrorEvent
    /\ \A i \in 1..(Len(events) - 1) : events[i].kind = "text"

\* C5 as stated: in every mode, once the generation backend raised, the
\* finished stream is the text events streamed before, then one Error event.
C5_Original ==
    (pc = "done" /\ (outcome.error_site \in StreamSites
                     \/ outcome.tool_error_site = "tool_stream"))
        => TextsThenError

\* C5, amended: in RAG and CHAT mode, and in the CHAT fallback of the TOOL
\* branch, a raise of the generation backend after k deltas yields those k
\* text events, then exactly one Error event, and the stream ends.  A raise
\* of chat_with_tools or of the final-answer stream of the TOOL branch is
\* absorbed: the fallback's output follows and no Error event is emitted
\* unless the fallback raises too.
C5_ErrorTerminatesStream ==
    /\ outcome.error_site \in OuterSites =>
          /\ TextsThenError
          /\ ConcatTexts(Front(events)) = full_response_text
          /\ pc \in { "after_error", "done", "closed" }
    /\ outcome.error_site \notin OuterSites =>
          \A i \in 1..Len(events) : events[i].kind # "error"

C5_Witness ==
    /\ selected_mode = "rag"
    /\ outcome.error_site = "rag_stream"
    /\ Len(events) = MaxChunks + 1
    /\ pc = "done"

SourcesAt == { i \in 1..Len(events) : events[i].kind = "sources" }

\* C6: the sources event occurs at most once and is then the last event; it
\* is emitted exactly when a SourceRecord accumulated and the branch completed
\* without the Error event.
C6_SourcesOnceLast ==
    /\ Cardinality(SourcesAt) <= 1
    /\ \A i \in SourcesAt :
          /\ i = Len(events)
          /\ events[i].sources = sources
          /\ sources # << >>
    /\ (pc = "done" /\ outcome.status = "completed") =>
          (SourcesAt # {} <=> sources # << >>)
    /\ outcome.error_site # "" => SourcesAt = {}

C6_Witness ==
    /\ pc = "done"
    /\ outcome.status = "completed"
    /\ Len(events) >= 2
    /\ events[Len(events)].kind = "sources"
    /\ events[1].kind = "text"

\* C7 as stated: every stream has at least one event when it ends.
C7_Original == pc = "done" => events # << >>

\* C7, amended: a stream that ended has no event exactly when the generation
\* gave no non-empty delta (or the direct reply was empty), no SourceRecord
\* accumulated and no failure was converted into the Error event; in every
\* other case it has at least one event.
C7_EventsUnlessEmpty ==
    pc \in { "done", "raised" } =>
        (events = << >> <=>
            (full_response_text = << >> /\ sources = << >> /\ outcome.status # "error"))

C7_Witness ==
    /\ pc = "done"
    /\ outcome.status = "completed"
    /\ selected_mode = "tool"
    /\ outcome.tool_error_site = ""
    /\ events = << >>

\* what a turn request does to the ChatSession table, by the kind of the
\* identifier it carries
ResolvesAsClaimed(sid, before, after, resolved) ==
    /\ Canon(resolved) \in DOMAIN after
    /\ IsValidUUID(resolved)
    /\ \A k \in DOMAIN before : k \in DOMAIN after /\ after[k].title = before[k].title
    /\ IF Truthy(sid) /\ IsValidUUID(sid) /\ Canon(sid) \in DOMAIN before
       THEN resolved = sid /\ DOMAIN after = DOMAIN before
       ELSE IF Truthy(sid) /\ IsValidUUID(sid)
       THEN resolved = sid /\ DOMAIN after = (DOMAIN before) \cup { Canon(sid) }
       ELSE /\ resolved # sid
            /\ resolved \notin DOMAIN before
            /\ DOMAIN after = (DOMAIN before) \cup { resolved }

\* C8: a turn request reuses the session its identifier names, creates the
\* session under a well-formed unknown identifier, and mints a fresh valid
\* identifier for a malformed or missing one; the turn then runs against one
\* existing session, in which its user message is stored.
C8_SessionResolution ==
    [][ turn' = turn + 1 =>
          /\ ResolvesAsClaimed(request'.session_id, sessions, sessions', session_id')
          /\ pc' = "gen_start" =>
                /\ Len(messages') = Len(messages) + 1
                /\ messages'[Len(messages')].session = Canon(session_id')
                /\ messages'[Len(messages')].session \in DOMAIN sessions' ]_vars

C8_Witness ==
    /\ turn = 2
    /\ request.session_id = "zz"
    /\ pc = "gen_start"
    /\ DOMAIN sessions = { "c1", "m1" }
    /\ session_id = "m1"

UserMessagePersisted ==
    \E i \in 1..Len(messages) :
        /\ messages[i].session = Canon(session_id)
        /\ messages[i].role = "user"
        /\ messages[i].content = current_message

\* C9: from the moment the generator of a turn exists, before its first step,
\* and through every later state of the turn (error, fallback, dropped
\* stream), the user message of the turn is stored.
C9_UserMessageFirst ==
    pc \notin { "idle", "rejected" } => UserMessagePersisted

C9_Witness ==
    /\ pc = "closed"
    /\ outcome.tool_error_site = "tool_stream"
    /\ events # << >>
    /\ UserMessagePersisted

SessionRowsOf(sid) ==
    { messages[i] : i \in { j \in 1..Len(messages) : messages[j].session = Canon(sid) } }

\* the number of rows of the session created before row r
RankOf(sid, r) ==
    Cardinality({ q \in SessionRowsOf(sid) : q.created_at < r.created_at })

\* C10: for a session with n stored messages, get_chat_history returns the
\* min(n, 20) most recently created ones, oldest first, with role 'ai' given
\* as 'assistant' and every other role unchanged.
C10_HistoryWindow ==
    (pc = "history" /\ session_id # None) =>
        LET n == Cardinality(SessionRowsOf(session_id))
            k == IF n <= 20 THEN n ELSE 20
        IN  /\ Len(history) = k
            /\ \A i \in 1..k :
                  \E r \in SessionRowsOf(session_id) :
                      /\ RankOf(session_id, r) = (n - k) + (i - 1)
                      /\ history[i].content = r.content
                      /\ history[i].role = (IF r.role = "ai" THEN "assistant" ELSE r.role)

C10_Witness ==
    /\ pc = "history"
    /\ session_id = "C1"
    /\ Cardinality(SessionRowsOf(session_id)) > 20
    /\ Len(history) = 20
    /\ \E i \in 1..Len(history) : history[i].role = "assistant"
    /\ \E i \in 1..Len(history) : history[i].role = "system"

\* the stored rows of the worker's session, as a history would list them
AsHistory(rows) ==
    LET byTime == OrderByAsc(rows)
    IN  [ i \in 1..Len(byTime) |->
            [ role |-> MapRole(byTime[i].role), content |-> byTime[i].content ] ]

\* the user message the worker stored for its turn
OwnRows(w) ==
    { r \in SessionRows(messages, procs[w].session_id) : r.created_at = procs[w].msg_at }

\* the rows of the session stored before the worker's own message
EarlierRows(w) ==
    { r \in SessionRows(messages, procs[w].session_id) : r.created_at < procs[w].msg_at }

\* C11: the history a turn hands to its generator lists every message of the
\* session stored before the turn's own user message, possibly messages that
\* concurrent turns stored after it, and never the turn's own user message
\* (sessions here stay below the window of 20).
C11_HistoryExcludesOwn ==
    [][ \A w \in Workers :
          (procs[w].pc = "history" /\ procs'[w].pc = "streaming") =>
              \E S \in SUBSET (SessionRows(messages, procs[w].session_id) \ OwnRows(w)) :
                  /\ EarlierRows(w) \subseteq S
                  /\ procs'[w].history = AsHistory(S) ]_vars

AiRows == { i \in 1..Len(messages) : messages[i].role = "ai" }

IsText(e) == e.kind = "text"

\* the text deltas of the stream, concatenated in order
EmittedText == ConcatTexts(SelectSeq(events, IsText))

\* the source list of the sources event, empty when there is none
EmittedSources ==
    IF SourcesAt = {} THEN << >> ELSE events[CHOOSE i \in SourcesAt : TRUE].sources

Completed == pc = "done" /\ outcome.status = "completed"

\* the assistant message of the turn, as the claim describes it
OneAssistantMessage ==
    /\ Cardinality(AiRows) = 1
    /\ \A i \in AiRows :
          /\ messages[i].session = Canon(session_id)
          /\ messages[i].content = EmittedText
          /\ messages[i].sources = EmittedSources
          /\ messages[i].elapsed_time # Null
          /\ i = Len(messages)

\* C12 as stated: every stream that completes without the Error event has
\* exactly one assistant message stored for it.
C12_Original == Completed => OneAssistantMessage

\* C12, amended: no assistant message is stored before the stream has
\* completed without the Error event; a completed stream has exactly one, with
\* the concatenated text deltas, the emitted source list and an elapsed time,
\* unless reading the session or inserting the message failed in the
\* persistence step (the failure is swallowed): then it has none.
C12_AssistantPersisted ==
    /\ ~Completed => AiRows = {}
    /\ Completed =>
          IF outcome.persist_site \in { "get", "create" }
          THEN AiRows = {}
          ELSE OneAssistantMessage

C12_Witness ==
    /\ Completed
    /\ outcome.persist_site = ""
    /\ outcome.tool_error_site = "tool_stream"
    /\ OneAssistantMessage
    /\ Len(EmittedText) >= 2
    /\ EmittedSources # << >>

\* "..."
Ellipsis == << 46, 46, 46 >>

\* the title the rule gives for a user message
RuleTitle(msg) ==
    SubSeq(Strip(msg), 1, Min(20, Len(Strip(msg))))
        \o (IF Len(Strip(msg)) > 20 THEN Ellipsis ELSE << >>)

\* C13: a completed turn that found the title "New Chat" and stored its
\* assistant message and the title leaves the session titled with the first
\* 20 characters of the trimmed user message, followed by "..." exactly when
\* the trimmed message is longer than 20 characters.
C13_TitleRule ==
    (Completed /\ outcome.persist_site = "") =>
        sessions[Canon(session_id)].title = RuleTitle(current_message)

\* the user messages stored in session k: one per turn that got past its
\* request handler
UserRowsOf(k) ==
    { i \in 1..Len(messages) : messages[i].session = k /\ messages[i].role = "user" }

\* C14: a turn changes the title of a session only if it is the first turn of
\* the session; after the first turn has ended (completed, failed or dropped
\* by the consumer) no later turn changes the title.
C14_TitleOnFirstTurnOnly ==
    [][ \A k \in DOMAIN sessions :
          (k \in DOMAIN sessions' /\ sessions'[k].title # sessions[k].title) =>
              Cardinality(UserRowsOf(k)) = 1 ]_vars

\* C15: when the persistence step fails after generation finished (reading
\* the session, because it was deleted meanwhile or for another reason,
\* inserting the assistant message, or saving the title), the stream has no
\* Error event and ends normally with exactly the events produced before.
C15_PersistFailureSilent ==
    outcome.persist_site # "" =>
        /\ Completed
        /\ \A i \in 1..Len(events) : events[i].kind # "error"
        /\ EmittedText = full_response_text
        /\ EmittedSources = sources

C15_Witness ==
    /\ outcome.persist_site = "get"
    /\ ~SessionExists(sessions, session_id)
    /\ reply.op = "delete_session"
    /\ reply.success
    /\ Completed
    /\ events # << >>

NoDuplicates(seq) ==
    \A i \in 1..Len(seq) : \A j \in 1..Len(seq) : seq[i] = seq[j] => i = j

\* C16: in every branch, the source list of the sources event and the one
\* stored with the assistant message hold no two equal SourceRecords.
C16_SourcesDistinct ==
    /\ \A i \in SourcesAt : NoDuplicates(events[i].sources)
    /\ \A i \in AiRows : NoDuplicates(messages[i].sources)

\* the session named by sid is owned, and the caller is not its owner
NotTheOwner(caller, sid) ==
    /\ IsValidUUID(sid)
    /\ Canon(sid) \in DOMAIN sessions
    /\ sessions[Canon(sid)].user # None
    /\ sessions[Canon(sid)].user # caller

\* the stored messages of a session, oldest first, as the history request
\* returns them
AscendingHistory(sid) ==
    LET rows == { r \in { messages[i] : i \in 1..Len(messages) } : r.session = Canon(sid) }
        n == Cardinality(rows)
    IN  [ i \in 1..n |->
            LET r == CHOOSE q \in rows :
                        Cardinality({ o \in rows : o.created_at < q.created_at }) = i - 1
            IN  [ role |-> r.role, text |-> r.content, sources |-> r.sources,
                  elapsed |-> r.elapsed_time ] ]

HistoryAnswered == reply'.op = "get_history" /\ reply' # reply

\* C17: a history request for a session owned by A made by any caller that is
\* not A (unauthenticated callers included) returns the empty list, and so
\* does one with a malformed identifier; any other request returns the
\* messages of the session in ascending creation order.
C17_HistoryOwnerOnly ==
    [][ HistoryAnswered =>
          reply'.rows =
              IF ~IsValidUUID(reply'.sid) \/ NotTheOwner(reply'.caller, reply'.sid)
              THEN << >>
              ELSE AscendingHistory(reply'.sid) ]_vars

DeleteAnswered == reply'.op = "delete_session" /\ reply' # reply

\* C18: a delete request for a session owned by A made by any caller that is
\* not A (unauthenticated callers included) changes no session and no message
\* and reports failure; a permitted delete removes the session and every
\* message of it, and nothing else.
C18_DeleteOwnerOnly ==
    [][ DeleteAnswered =>
          IF NotTheOwner(reply'.caller, reply'.sid)
          THEN /\ ~reply'.success
               /\ sessions' = sessions
               /\ messages' = messages
          ELSE IsValidUUID(reply'.sid) =>
               /\ reply'.success
               /\ Canon(reply'.sid) \notin DOMAIN sessions'
               /\ \A i \in 1..Len(messages') : messages'[i].session # Canon(reply'.sid)
               /\ \A k \in (DOMAIN sessions) \ { Canon(reply'.sid) } :
                     k \in DOMAIN sessions' /\ sessions'[k] = sessions[k]
               /\ messages' = SelectSeq(messages, LAMBDA r : r.session # Canon(reply'.sid)) ]_vars

\* C19: the owner of a session is bound at most once: a step sets the owner
\* of an existing session only while the session has none, and an owner that
\* is set is never changed by a later step, also with two workers serving
\* differently authenticated callers on one unowned session.
C19_OwnerBoundOnce ==
    [][ \A k \in DOMAIN sessions :
          (k \in DOMAIN sessions' /\ sessions'[k].user # sessions[k].user) =>
              /\ sessions[k].user = None
              /\ sessions'[k].user \in Users ]_vars

\* both workers looked the identifier up, found no session, and went on to
\* create it: a duplicate submission of a well-formed unknown identifier
DuplicateSubmission(a, b) ==
    /\ a # b
    /\ procs[a].missed /\ procs[b].missed
    /\ IsValidUUID(procs[a].session_id)
    /\ Canon(procs[a].session_id) = Canon(procs[b].session_id)
    /\ procs[a].text # << >> /\ procs[b].text # << >>
    /\ procs[a].pc \in { "streaming", "done", "raised" }
    /\ procs[b].pc \in { "streaming", "done", "raised" }

UserMessageOf(w) ==
    { i \in 1..Len(messages) :
        /\ messages[i].created_at = procs[w].msg_at
        /\ messages[i].session = Canon(procs[w].session_id)
        /\ messages[i].role = "user"
        /\ messages[i].content = procs[w].text }

\* C20: when two concurrent turns carry the same well-formed, previously
\* unknown session identifier, neither request raises, the session exists
\* once and both user messages are stored in it.
C20_DuplicateProceeds ==
    \A a \in Workers : \A b \in Workers :
        DuplicateSubmission(a, b) =>
            /\ procs[a].pc # "raised" /\ procs[b].pc # "raised"
            /\ Canon(procs[a].session_id) \in DOMAIN sessions
            /\ UserMessageOf(a) # {} /\ UserMessageOf(b) # {}

\* C21: the step in which the consumer drops the stream takes no further
\* delta from the generation backend and stores nothing, and it ends the
\* generator; in the state it leaves, the user message of the turn is stored
\* and an assistant message, if there is one, holds exactly the text streamed.
C21_AbandonedStream ==
    [][ pc' = "closed" =>
          /\ pc # "closed" =>
                /\ suspended /\ ~suspended'
                /\ consumed' = consumed
                /\ full_response_text' = full_response_text
                /\ events' = events
                /\ messages' = messages
                /\ sessions' = sessions
          /\ pc' \in Idle
          /\ outcome'.status = "closed"
          /\ \E i \in 1..Len(messages') :
                /\ messages'[i].session = Canon(session_id')
                /\ messages'[i].role = "user"
                /\ messages'[i].content = current_message'
          /\ \A i \in 1..Len(messages') :
                messages'[i].role = "ai" =>
                    messages'[i].content = ConcatTexts(SelectSeq(events', IsText)) ]_vars

C21_Witness ==
    /\ pc = "closed"
    /\ selected_mode = "rag"
    /\ Len(events) = 1
    /\ events[1].kind = "text"
    /\ consumed < MaxChunks
    /\ UserMessagePersisted
    /\ AiRows = {}

\* the similarities of the tools whose embedding succeeded
Succeeded(sims) == { i \in 1..Len(sims) : sims[i] # Null }

\* the greatest similarity over the tools whose embedding succeeded
BestSucceeded(sims) ==
    IF Succeeded(sims) = {} THEN 0
    ELSE CHOOSE m \in { sims[i][1] : i \in Succeeded(sims) } :
             \A i \in Succeeded(sims) : sims[i][1] <= m

\* C22: when the embedding of one tool fails, matching still covers the other
\* tools: the best score is the greatest similarity over every tool whose
\* embedding succeeded, and the best tool is a tool with that similarity,
\* wherever the failing tool stands in the list.
C22_MatchSkipsFailedTool ==
    (pc = "route" /\ tool_sims # << >>) =>
        /\ tool_match_score = BestSucceeded(tool_sims)
        /\ tool_match_score > 0 =>
              \E i \in Succeeded(tool_sims) :
                  /\ mcp_tools[i] = matched_tool_name
                  /\ tool_sims[i][1] = tool_match_score

\* a completed turn whose TOOL branch fell back to plain chat
FellBack == Completed /\ outcome.tool_error_site # "" /\ outcome.persist_site = ""

\* the part of the answer the fallback's own stream produced
FallbackText ==
    SubSeq(full_response_text, outcome.fallback_from + 1, Len(full_response_text))

\* C23 as stated: after a hard failure of the TOOL branch the assistant message
\* stored for the turn holds the text and the sources a CHAT turn produces for
\* the same query and history: the text of the one plain stream and no sources.
C23_Original ==
    FellBack =>
        \A i \in AiRows :
            /\ messages[i].content = FallbackText
            /\ messages[i].sources = << >>

\* C23, amended: after a hard failure of the TOOL branch the turn streams one
\* plain answer and never re-enters the tool step; the assistant message stored
\* holds the text streamed before the failure followed by the plain answer, and
\* one source record per tool invocation made before the failure.
C23_FallbackKeepsToolOutput ==
    /\ [](FellBack =>
            /\ Cardinality(AiRows) = 1
            /\ \A i \in AiRows :
                  /\ messages[i].content = EmittedText
                  /\ messages[i].content =
                         SubSeq(EmittedText, 1, outcome.fallback_from) \o FallbackText
                  /\ messages[i].sources = CallSources(tool_calls, << >>))
    /\ [][ outcome.tool_error_site # "" =>
              /\ pc' \notin { "tool", "tool_stream", "tool_direct" }
              /\ tool_calls' = tool_calls
              /\ sources' = sources ]_vars

C23_Witness ==
    /\ FellBack
    /\ outcome.tool_error_site = "tool_stream"
    /\ outcome.fallback_from > 0
    /\ FallbackText # << >>
    /\ \E i \in AiRows : messages[i].sources # << >>

\* caller t leaves the comparison of lines 33-58 in this step
Compares(t) == callers[t].pc = "check" /\ callers'[t].pc # "check"

\* C24: a call that finds an active configuration rebuilds the handle exactly
\* when the cached signature differs from the configuration's signature, and
\* when the two are equal (and the configuration has an API key) it returns
\* the handle built from that configuration, whatever calls came before.
C24_CachedHandleMatchesConfig ==
    [][ \A t \in LlmCallers :
          (Compares(t) /\ callers[t].db_config # Null) =>
              LET cfg == callers[t].db_config[1]
              IN  /\ callers'[t].pc = "build" <=> current_config_id # Signature(cfg)
                  /\ (current_config_id = Signature(cfg) /\ cfg.api_key) =>
                        callers'[t].ret = Some(Signature(cfg)) ]_vars

\* C25: while one caller is rebuilding the handle after a configuration
\* change, a call of another caller that found an active configuration with
\* an API key returns a handle, not None.
C25_ConcurrentCallersGetHandle ==
    [][ \A t, u \in LlmCallers :
          ( /\ t # u
            /\ callers[u].pc = "build"
            /\ callers[u].source # EnvSig
            /\ callers[u].api_key
            /\ callers[t].pc # "returned"
            /\ callers'[t].pc = "returned"
            /\ callers[t].db_config # Null
            /\ callers[t].db_config[1].api_key ) =>
              callers'[t].ret # Null ]_vars

\* C28: a call that finds no active configuration in the table returns a
\* handle built from the environment variables: it either builds one now or
\* returns the cached one, which then was built from them.
C28_EnvFallbackWithoutConfig ==
    [][ \A t \in LlmCallers :
          (Compares(t) /\ callers[t].db_config = Null) =>
              \/ callers'[t].pc = "build" /\ callers'[t].source = EnvSig
              \/ callers'[t].pc = "returned" /\ callers'[t].ret = Some(EnvSig) ]_vars

\* the tools of the servers that are active and connected now
ConnectedTools ==
    UNION { { ServerTools[k][i] : i \in 1..Len(ServerTools[k]) } :
                k \in ActiveConnected(mcp_configs) }

\* the call made now is answered from the cache
AnsweredFromCache == ActiveConnected(mcp_configs) # {} /\ CacheValid

\* C27: the list a call of get_mcp_tools returns holds no tool of a server
\* that is inactive or not connected at the time of the call, and the
\* tool-to-server map names exactly the tools of that list.
C27_ToolsOfConnectedServers ==
    AnsweredFromCache =>
        /\ \A i \in 1..Len(mcp_tools_cache[1]) :
              mcp_tools_cache[1][i] \in ConnectedTools
        /\ DOMAIN tool_server_map =
              { mcp_tools_cache[1][i] : i \in 1..Len(mcp_tools_cache[1]) }

\* the vector search of the turn produced at least one similarity
VectorScored == SelectNotNone(retrieved_nodes) # << >>

\* C26: the score the router uses for retrieval comes from the greatest vector
\* similarity of the turn, and when the vector search of a turn with retrieval
\* enabled produced no similarity but the text search matched, it is a nonzero
\* floor value.
C26_TextMatchFloor ==
    Routed =>
        IF VectorScored
        THEN max_score = SeqMax(SelectNotNone(retrieved_nodes))
        ELSE (use_rag /\ keyword_match) => rag_score(max_score, keyword_match) > 0

\* C29: a turn submitted with use_rag = false does not run the vector search,
\* so its retrieval score is 0 and its mode is TOOL or CHAT, whatever the text
\* search finds.
C29_NoRagWithoutRetrieval ==
    ~use_rag =>
        /\ retrieved_nodes = << >>
        /\ max_score = 0
        /\ selected_mode \in { "", "tool", "chat" }

C29_Witness ==
    /\ Routed
    /\ ~use_rag
    /\ is_exact_match
    /\ keyword_results # << >>
    /\ selected_mode = "chat"

ErrorEmitted == \E i \in 1..Len(events) : events[i].kind = "error"

\* C30: once the Error event of a turn is emitted, the turn has stored only
\* its user message, the session still has the title it had, and no later
\* step of the turn changes the database.
C30_ErrorTurnPersistsNothing ==
    /\ [](ErrorEmitted =>
            /\ AiRows = {}
            /\ Len(messages) = 1
            /\ UserMessagePersisted
            /\ DOMAIN sessions = { Canon(session_id) }
            /\ sessions[Canon(session_id)].title = NewChat)
    /\ [][ ErrorEmitted => (sessions' = sessions /\ messages' = messages) ]_vars

C30_Witness ==
    /\ ErrorEmitted
    /\ pc = "done"
    /\ outcome.status = "error"
    /\ Len(events) >= 2
    /\ full_response_text # << >>
    /\ Len(messages) = 1

====
